---- MODULE Spec2Model ----
(***************************************************************************)
(* A model of usefix: the conflict-aware rewriter (write_file.rs), the     *)
(* parser and line numbering of conflict files (gitfile.rs), the building, *)
(* flattening and printing of use items (tree.rs, flattened.rs,            *)
(* printable.rs), identifiers (parsers.rs) and the formatter subprocess    *)
(* (pretty.rs).                                                            *)
(*                                                                         *)
(* Bytes are modelled as sequences of line tokens: the content of a Line   *)
(* is a one-token sequence, the formatted use items are a sequence of      *)
(* tokens, and concatenating token sequences is concatenating bytes.       *)
(***************************************************************************)
EXTENDS Integers, Sequences, FiniteSets, TLC

VARIABLES
    pc,                   \* position of the operation under analysis
    original,             \* write_corrected_file: the GitFile (its chunks)
    discarded_lines,      \* write_corrected_file: the HashSet<LineNumber>
    formatted_use_items,  \* write_corrected_file: the byte buffer to insert
    insert_point,         \* the local `insert_point` of write_corrected_file
    dest,                 \* the sequence of writes made to `dest`
    parts,                \* every PrintableConflict handed to write_conflict
    items,                \* NormalizedUsedItems::items
    added,                \* the UseItems passed to add_tree so far, in order
    group,                \* one UsedItemPropertiesGroup
    merge_args,           \* the group before the last merge, and its arguments
    subsume_args,         \* is_subsumed_by: <<self, possible_parent>>
    subsumed,             \* is_subsumed_by: the value returned
    print_items,            \* PrintableUseItems::items, in the order of the BTreeMap
    print_added,          \* the arguments of add_single_used_item so far, in order
    output,               \* the lines written by Display for PrintableUseItems
    file,                 \* GitFile::from_file: the input text
    parsed,               \* GitFile::from_file: the Result
    derived,              \* build_derived_file: the side and the DerivedFile
    ordering,             \* Ord::cmp: the Ordering returned
    syn_use,              \* from_syn_use_item: the syn::ItemUse
    created,              \* from_syn_use_item: the Result
    input_str,            \* parse_identifier: the input, a sequence of characters
    ident_result,         \* parse_identifier: the IResult
    capacity,             \* prettify_with_subcommand: the capacity of a pipe, in bytes
    stdin,                \* the pipe to the stdin of the subprocess
    stdout,               \* the pipe from the stdout of the subprocess
    command,              \* the subprocess
    stdin_thread,         \* the thread that writes formatted_use_items to stdin
    stdout_thread         \* the thread that reads stdout to its end

writerVars == <<original, discarded_lines, formatted_use_items, insert_point, dest, parts>>
flattenVars == <<items, added>>
mergeVars == <<group, merge_args>>
subsumeVars == <<subsume_args, subsumed>>
printVars == <<print_items, print_added, output>>
parseVars == <<file, parsed, derived>>
orderVars == <<ordering>>
buildVars == <<syn_use, created>>
identVars == <<input_str, ident_result>>
pipeVars == <<capacity, stdin, stdout, command, stdin_thread, stdout_thread>>
vars == <<pc, writerVars, flattenVars, mergeVars, subsumeVars, printVars, parseVars, orderVars, buildVars, identVars, pipeVars>>

(* The variables of the operations that a specification does not run *)
SubsumeIdle == subsume_args = <<>> /\ subsumed = FALSE

PrintIdle == print_items = <<>> /\ print_added = <<>> /\ output = <<>>

ParseIdle == file = <<>> /\ parsed = [ok |-> FALSE, chunks |-> <<>>] /\ derived = <<>>

OrderIdle == ordering = "None"

BuildIdle == syn_use = <<>> /\ created = [ok |-> FALSE]

IdentIdle == input_str = <<>> /\ ident_result = [ok |-> FALSE]

PipeIdle == capacity = 0 /\ stdin = <<>> /\ stdout = <<>> /\ command = <<>> /\ stdin_thread = <<>> /\ stdout_thread = <<>>

-----------------------------------------------------------------------------
(* Bounds of the explored inputs *)

MaxLines == 4         \* content lines in a conflict file
MaxConflicts == 2     \* conflicts in a conflict file
MaxAdds == 3          \* calls of add_tree on one NormalizedUsedItems
MaxDocBytes == 3      \* bytes of docs merged into one properties group
MaxPrintItems == 3    \* calls of add_single_used_item on one PrintableUseItems
MaxFileLines == 5     \* lines of the text given to GitFile::from_file

(* The line contents that occur in the explored files *)
Contents == {"a", "b"}

(* The buffers explored as formatted use items: one that is byte-identical *)
(* to a possible line and one spanning two lines                           *)
Buffers == {<<"a">>, <<"a", "b">>}

LeftName == "HEAD"
RightName == "feat"

NoLine == 0           \* Option<LineNumber>::None (a LineNumber is non-zero)

-----------------------------------------------------------------------------
(* gitfile.rs: chunks and their line numbers *)

RawLine(c) == [type |-> "Line", content |-> c]

RawConflict(l, r) ==
    [type |-> "Conflict",
     left |-> [name |-> LeftName, lines |-> l],
     right |-> [name |-> RightName, lines |-> r]]

SeqsOfLen(n) == [1..n -> Contents]

(* Every chunk list with at most n content lines and at most k conflicts *)
RECURSIVE RawFiles(_, _)
RawFiles(n, k) ==
    {<<>>}
    \cup (IF n >= 1
          THEN {<<RawLine(c)>> \o f : c \in Contents, f \in RawFiles(n - 1, k)}
          ELSE {})
    \cup (IF k >= 1
          THEN UNION {
                 {<<RawConflict(l, r)>> \o f :
                    l \in SeqsOfLen(ij[1]), r \in SeqsOfLen(ij[2]),
                    f \in RawFiles(n - ij[1] - ij[2], k - 1)} :
                 ij \in {p \in (0..n) \X (0..n) : p[1] + p[2] <= n}}
          ELSE {})

(* Line::with_line_number over a list of lines, starting at `first` *)
NumberLines(lines, first) ==
    [i \in 1..Len(lines) |-> [content |-> lines[i], line_number |-> first + i - 1]]

(* ConflictHalf::with_line_number: skip the marker line, then number the lines *)
HalfWithLineNumber(half, line_number) ==
    [name |-> half.name, lines |-> NumberLines(half.lines, line_number + 1)]

(* Conflict::with_line_number; the counter ends after the footer line *)
ConflictWithLineNumber(conflict, line_number) ==
    LET left == HalfWithLineNumber(conflict.left, line_number)
        afterLeft == line_number + 1 + Len(conflict.left.lines)
        right == HalfWithLineNumber(conflict.right, afterLeft)
    IN [type |-> "Conflict", left |-> left, right |-> right]

ChunkSpanWithoutFooter(chunk) ==
    IF chunk.type = "Line" THEN 1
    ELSE 2 + Len(chunk.left.lines) + Len(chunk.right.lines)

(* The lines a chunk takes up: the counter after Chunk::with_line_number *)
ChunkSpan(chunk) ==
    IF chunk.type = "Line" THEN 1
    ELSE 3 + Len(chunk.left.lines) + Len(chunk.right.lines)

(* GitFile::from_chunks *)
RECURSIVE FromChunksAt(_, _)
FromChunksAt(chunks, line_number) ==
    IF chunks = <<>> THEN <<>>
    ELSE LET chunk == Head(chunks)
             numbered ==
                 IF chunk.type = "Line"
                 THEN [type |-> "Line",
                       line |-> [content |-> chunk.content, line_number |-> line_number]]
                 ELSE ConflictWithLineNumber(chunk, line_number)
         IN <<numbered>> \o FromChunksAt(Tail(chunks), line_number + ChunkSpan(chunk))

FromChunks(chunks) == FromChunksAt(chunks, 1)

GitFiles == {FromChunks(raw) : raw \in RawFiles(MaxLines, MaxConflicts)}

ChunkLines(chunk) ==
    IF chunk.type = "Line" THEN <<chunk.line>>
    ELSE chunk.left.lines \o chunk.right.lines

RECURSIVE AllLines(_)
AllLines(chunks) ==
    IF chunks = <<>> THEN <<>>
    ELSE ChunkLines(Head(chunks)) \o AllLines(Tail(chunks))

Range(s) == {s[i] : i \in DOMAIN s}

LineNumbersOf(chunks) == {l.line_number : l \in Range(AllLines(chunks))}

-----------------------------------------------------------------------------
(* write_file.rs *)

(* One write to `dest`: its bytes, and where they came from *)
LineWrite(line) == [kind |-> "line", bytes |-> <<line.content>>, ln |-> line.line_number]
BufferWrite(buf) == [kind |-> "buffer", bytes |-> buf, ln |-> NoLine]
HeaderWrite(name) == [kind |-> "header", bytes |-> <<"<<<<<<< " \o name>>, ln |-> NoLine]
SeparatorWrite == [kind |-> "separator", bytes |-> <<"=======">>, ln |-> NoLine]
FooterWrite(name) == [kind |-> "footer", bytes |-> <<">>>>>>> " \o name>>, ln |-> NoLine]

BytesOf(writes) == [i \in DOMAIN writes |-> writes[i].bytes]

(* write_conflict without the comparison of the halves *)
WriteConflictAlwaysMarked(conflict) ==
    <<HeaderWrite(conflict.left.name)>>
    \o conflict.left.lines
    \o <<SeparatorWrite>>
    \o conflict.right.lines
    \o <<FooterWrite(conflict.right.name)>>

(* write_conflict with the branch names of the header and footer exchanged *)
WriteConflictSwappedNames(conflict) ==
    IF BytesOf(conflict.left.lines) = BytesOf(conflict.right.lines)
    THEN conflict.left.lines
    ELSE <<HeaderWrite(conflict.right.name)>>
         \o conflict.left.lines
         \o <<SeparatorWrite>>
         \o conflict.right.lines
         \o <<FooterWrite(conflict.left.name)>>

(* write_conflict: the writes it appends to dest *)
WriteConflict(conflict) ==
    IF BytesOf(conflict.left.lines) = BytesOf(conflict.right.lines)
    THEN conflict.left.lines
    ELSE <<HeaderWrite(conflict.left.name)>>
         \o conflict.left.lines
         \o <<SeparatorWrite>>
         \o conflict.right.lines
         \o <<FooterWrite(conflict.right.name)>>

Nowhere == [type |-> "Nowhere"]
Once(point) == [type |-> "Once", point |-> point]
IntoConflict(left, right) == [type |-> "IntoConflict", left |-> left, right |-> right]

(* InsertPoint::contains_line *)
ContainsLine(ip, line) ==
    CASE ip.type = "Nowhere" -> FALSE
      [] ip.type = "Once" -> ip.point = line
      [] ip.type = "IntoConflict" -> ip.left = line \/ ip.right = line

(* filtered_lines with the test of the filter negated *)
RECURSIVE FilteredLinesKeepsDiscarded(_, _)
FilteredLinesKeepsDiscarded(lines, discarded) ==
    IF lines = <<>> THEN <<>>
    ELSE LET line == Head(lines)
             rest == FilteredLinesKeepsDiscarded(Tail(lines), discarded)
         IN IF line.line_number \in discarded
            THEN <<LineWrite(line)>> \o rest
            ELSE rest

(* filtered_lines *)
RECURSIVE FilteredLines(_, _)
FilteredLines(lines, discarded) ==
    IF lines = <<>> THEN <<>>
    ELSE LET line == Head(lines)
             rest == FilteredLines(Tail(lines), discarded)
         IN IF line.line_number \notin discarded
            THEN <<LineWrite(line)>> \o rest
            ELSE rest

(* filtered_lines_inject_content without the substitution at the anchor *)
FilteredLinesWithoutInjection(lines, discarded, buf, ip) ==
    FilteredLines(lines, discarded)

(* filtered_lines_inject_content *)
RECURSIVE FilteredLinesInjectContent(_, _, _, _)
FilteredLinesInjectContent(lines, discarded, buf, ip) ==
    IF lines = <<>> THEN <<>>
    ELSE LET line == Head(lines)
             rest == FilteredLinesInjectContent(Tail(lines), discarded, buf, ip)
         IN IF ContainsLine(ip, line.line_number)
            THEN <<BufferWrite(buf)>> \o rest
            ELSE IF line.line_number \in discarded THEN rest
            ELSE <<LineWrite(line)>> \o rest

(* find_split_point: the 1-based position of the line, 0 when absent *)
FindSplitPoint(half, line_number) ==
    LET hits == {i \in DOMAIN half.lines : half.lines[i].line_number = line_number}
    IN IF hits = {} THEN 0 ELSE CHOOSE i \in hits : \A j \in hits : i <= j

RawWrites(lines) == [i \in DOMAIN lines |-> LineWrite(lines[i])]

PrintableConflict(leftName, leftLines, rightName, rightLines) ==
    [left |-> [name |-> leftName, lines |-> leftLines],
     right |-> [name |-> rightName, lines |-> rightLines]]

(* InsertPoint::try_split_conflict: <<>> for None, else <<top, bottom>> *)
TrySplitConflict(ip, conflict) ==
    IF ip.type # "IntoConflict" THEN <<>>
    ELSE LET l == FindSplitPoint(conflict.left, ip.left)
             r == FindSplitPoint(conflict.right, ip.right)
         IN IF l = 0 \/ r = 0 THEN <<>>
            ELSE << PrintableConflict(
                      conflict.left.name, SubSeq(conflict.left.lines, 1, l - 1),
                      conflict.right.name, SubSeq(conflict.right.lines, 1, r - 1)),
                    PrintableConflict(
                      conflict.left.name,
                      SubSeq(conflict.left.lines, l + 1, Len(conflict.left.lines)),
                      conflict.right.name,
                      SubSeq(conflict.right.lines, r + 1, Len(conflict.right.lines))) >>

(* first_matching_line_number_in_conflict_half *)
FirstMatchingLineNumber(half, discarded) ==
    LET hits == {i \in DOMAIN half.lines : half.lines[i].line_number \in discarded}
    IN IF hits = {} THEN NoLine
       ELSE half.lines[CHOOSE i \in hits : \A j \in hits : i <= j].line_number

(* p = Some(q) in place of p.or(Some(q)): the latest point wins *)
OrSomeLatest(p, q) == q

(* p.or(Some(q)) *)
OrSome(p, q) == IF p # NoLine THEN p ELSE q

(* find_insert_point: the loop from chunk i on, with the two accumulators *)
RECURSIVE FindInsertPointFrom(_, _, _, _, _)
FindInsertPointFrom(chunks, discarded, i, left_point, right_point) ==
    IF i > Len(chunks)
    THEN IF left_point # NoLine /\ right_point # NoLine
         THEN IntoConflict(left_point, right_point)
         ELSE IF left_point # NoLine THEN Once(left_point)
         ELSE IF right_point # NoLine THEN Once(right_point)
         ELSE Nowhere
    ELSE LET chunk == chunks[i] IN
         IF chunk.type = "Line"
         THEN IF chunk.line.line_number \in discarded
              THEN Once(chunk.line.line_number)
              ELSE FindInsertPointFrom(chunks, discarded, i + 1, left_point, right_point)
         ELSE LET local_left == FirstMatchingLineNumber(chunk.left, discarded)
                  local_right == FirstMatchingLineNumber(chunk.right, discarded)
              IN IF local_left # NoLine /\ local_right # NoLine
                 THEN IntoConflict(local_left, local_right)
                 ELSE IF local_left # NoLine
                 THEN FindInsertPointFrom(chunks, discarded, i + 1,
                                          OrSome(left_point, local_left), right_point)
                 ELSE IF local_right # NoLine
                 THEN FindInsertPointFrom(chunks, discarded, i + 1,
                                          left_point, OrSome(right_point, local_right))
                 ELSE FindInsertPointFrom(chunks, discarded, i + 1, left_point, right_point)

FindInsertPoint(chunks, discarded) ==
    FindInsertPointFrom(chunks, discarded, 1, NoLine, NoLine)

(* A call of write_conflict: the chunk it is made for, whether the conflict *)
(* is the whole chunk or the top or bottom of the split one, the conflict  *)
(* passed and the writes the call made                                     *)
Part(chunk, role, conflict) ==
    [chunk |-> chunk, role |-> role, conflict |-> conflict,
     written |-> WriteConflict(conflict)]

(* PrintableConflict::map_lines *)
MapLines(conflict, F(_)) ==
    PrintableConflict(conflict.left.name, F(conflict.left.lines),
                      conflict.right.name, F(conflict.right.lines))

(* PrintableConflict::from_conflict *)
FromConflict(conflict) ==
    PrintableConflict(conflict.left.name, conflict.left.lines,
                      conflict.right.name, conflict.right.lines)

(* The Chunk::Line arm of the first loop of write_corrected_file *)
InsertLoopLine(line, discarded, buf, ip) ==
    IF ContainsLine(ip, line.line_number)
    THEN [writes |-> <<BufferWrite(buf)>>, parts |-> <<>>, break |-> TRUE]
    ELSE IF line.line_number \in discarded
    THEN [writes |-> <<>>, parts |-> <<>>, break |-> FALSE]
    ELSE [writes |-> <<LineWrite(line)>>, parts |-> <<>>, break |-> FALSE]

(* The Chunk::Conflict arm of the first loop of write_corrected_file *)
InsertLoopConflict(i, conflict, discarded, buf, ip) ==
    LET split == TrySplitConflict(ip, conflict) IN
    IF split # <<>>
    THEN LET F(lines) == FilteredLines(lines, discarded)
             top_conflict == MapLines(split[1], RawWrites)
             bottom_conflict == MapLines(split[2], F)
         IN [writes |-> WriteConflict(top_conflict)
                          \o <<BufferWrite(buf)>>
                          \o WriteConflict(bottom_conflict),
             parts |-> <<Part(i, "top", top_conflict), Part(i, "bottom", bottom_conflict)>>,
             break |-> TRUE]
    ELSE LET G(lines) == FilteredLinesInjectContent(lines, discarded, buf, ip)
             printable == MapLines(FromConflict(conflict), G)
         IN [writes |-> WriteConflict(printable),
             parts |-> <<Part(i, "whole", printable)>>,
             break |-> FALSE]

(* The Chunk::Line arm of the second loop without the test against D *)
RestLoopLineUnfiltered(line, discarded) ==
    [writes |-> <<LineWrite(line)>>, parts |-> <<>>]

(* The Chunk::Line arm of the second loop of write_corrected_file *)
RestLoopLine(line, discarded) ==
    IF line.line_number \notin discarded
    THEN [writes |-> <<LineWrite(line)>>, parts |-> <<>>]
    ELSE [writes |-> <<>>, parts |-> <<>>]

(* The Chunk::Conflict arm of the second loop without the test against D *)
RestLoopConflictUnfiltered(i, conflict, discarded) ==
    LET printable == MapLines(FromConflict(conflict), RawWrites)
    IN [writes |-> WriteConflict(printable), parts |-> <<Part(i, "whole", printable)>>]

(* The Chunk::Conflict arm of the second loop of write_corrected_file *)
RestLoopConflict(i, conflict, discarded) ==
    LET F(lines) == FilteredLines(lines, discarded)
        printable == MapLines(FromConflict(conflict), F)
    IN [writes |-> WriteConflict(printable), parts |-> <<Part(i, "whole", printable)>>]

(* The second loop of write_corrected_file: chunks i.. are only filtered *)
RECURSIVE WriteRest(_, _, _, _)
WriteRest(chunks, discarded, i, acc) ==
    IF i > Len(chunks) THEN acc
    ELSE LET chunk == chunks[i]
             step == IF chunk.type = "Line"
                     THEN RestLoopLine(chunk.line, discarded)
                     ELSE RestLoopConflict(i, chunk, discarded)
         IN WriteRest(chunks, discarded, i + 1,
                      [dest |-> acc.dest \o step.writes, parts |-> acc.parts \o step.parts])

(* The first loop of write_corrected_file, which breaks into the second *)
RECURSIVE WriteUntilInserted(_, _, _, _, _, _)
WriteUntilInserted(chunks, discarded, buf, ip, i, acc) ==
    IF i > Len(chunks) THEN acc
    ELSE LET chunk == chunks[i]
             step == IF chunk.type = "Line"
                     THEN InsertLoopLine(chunk.line, discarded, buf, ip)
                     ELSE InsertLoopConflict(i, chunk, discarded, buf, ip)
             next == [dest |-> acc.dest \o step.writes, parts |-> acc.parts \o step.parts]
         IN IF step.break
            THEN WriteRest(chunks, discarded, i + 1, next)
            ELSE WriteUntilInserted(chunks, discarded, buf, ip, i + 1, next)

-----------------------------------------------------------------------------
(* Maps (HashMap, BTreeMap) are functions; EmptyMap has the empty domain *)

EmptyMap == <<>>

GetOr(map, key, default) == IF key \in DOMAIN map THEN map[key] ELSE default

Put(map, key, value) == (key :> value) @@ map

-----------------------------------------------------------------------------
(* common.rs, tree.rs: use items *)

Used == [kind |-> "Used"]
Renamed(alias) == [kind |-> "Renamed", alias |-> alias]

Rooted == "Rooted"
Unrooted == "Unrooted"

(* Option<Visibility>: NoVis is None *)
NoVis == [kind |-> "None"]
Public == [kind |-> "Public"]
Crate == [kind |-> "Crate"]
This == [kind |-> "This"]
Super == [kind |-> "Super"]
In(segments) == [kind |-> "In", segments |-> segments]

(* syn::Visibility *)
SynPublic == [t |-> "Public"]
SynInherited == [t |-> "Inherited"]
SynRestricted(in_token, path) == [t |-> "Restricted", in_token |-> in_token, path |-> path]

(* from_syn_vis with every restricted path taken as `in path` *)
FromSynVisAnyPath(vis) ==
    CASE vis.t = "Public" -> [ok |-> TRUE, vis |-> Public]
      [] vis.t = "Inherited" -> [ok |-> TRUE, vis |-> NoVis]
      [] vis.t = "Restricted" ->
            IF vis.path = <<"crate">> /\ ~vis.in_token THEN [ok |-> TRUE, vis |-> Crate]
            ELSE IF vis.path = <<"self">> /\ ~vis.in_token THEN [ok |-> TRUE, vis |-> This]
            ELSE IF vis.path = <<"super">> /\ ~vis.in_token THEN [ok |-> TRUE, vis |-> Super]
            ELSE [ok |-> TRUE, vis |-> In(vis.path)]

(* Visibility::from_syn_vis *)
FromSynVis(vis) ==
    CASE vis.t = "Public" -> [ok |-> TRUE, vis |-> Public]
      [] vis.t = "Inherited" -> [ok |-> TRUE, vis |-> NoVis]
      [] vis.t = "Restricted" ->
            IF vis.in_token THEN [ok |-> TRUE, vis |-> In(vis.path)]
            ELSE IF vis.path = <<"crate">> THEN [ok |-> TRUE, vis |-> Crate]
            ELSE IF vis.path = <<"self">> THEN [ok |-> TRUE, vis |-> This]
            ELSE IF vis.path = <<"super">> THEN [ok |-> TRUE, vis |-> Super]
            ELSE [ok |-> FALSE, error |-> "MalformedVisibility"]

(* A String is a sequence of bytes; a DocsList is a sequence of Strings *)
RECURSIVE DocBytes(_)
DocBytes(docs) == IF docs = <<>> THEN <<>> ELSE Head(docs) \o DocBytes(Tail(docs))

(* DocsList::len *)
DocsLen(docs) == Len(DocBytes(docs))

Reverse(s) == [i \in 1..Len(s) |-> s[Len(s) + 1 - i]]

(* The loop of either_prefix / either_suffix over two byte iterators *)
RECURSIVE AgreeUntilEnd(_, _)
AgreeUntilEnd(x, y) ==
    IF x # <<>> /\ y # <<>> /\ Head(x) = Head(y) THEN AgreeUntilEnd(Tail(x), Tail(y))
    ELSE x = <<>> \/ y = <<>>

(* DocsList::either_prefix *)
EitherPrefix(self, other) == AgreeUntilEnd(DocBytes(self), DocBytes(other))

(* DocsList::either_suffix *)
EitherSuffix(self, other) == AgreeUntilEnd(Reverse(DocBytes(self)), Reverse(DocBytes(other)))

CombinePrefixOnly(self, other) ==
    IF EitherPrefix(self, other)
    THEN IF DocsLen(self) < DocsLen(other) THEN other ELSE self
    ELSE self \o other

(* DocsList::combine: the new value of self *)
Combine(self, other) ==
    IF EitherPrefix(self, other) \/ EitherSuffix(self, other)
    THEN IF DocsLen(self) < DocsLen(other) THEN other ELSE self
    ELSE self \o other

(* Branches::default() *)
DefaultBranches == [used |-> {}, wildcard |-> FALSE, children |-> EmptyMap]

(* syn::UseTree *)
UsePath(ident, tree) == [t |-> "Path", ident |-> ident, tree |-> tree]
UseName(ident) == [t |-> "Name", ident |-> ident]
UseRename(ident, rename) == [t |-> "Rename", ident |-> ident, rename |-> rename]
UseGlob == [t |-> "Glob"]
UseGroup(trees) == [t |-> "Group", items |-> trees]

(* Branches::get_subtree: the subtree the returned reference points to *)
GetSubtree(branches, location) ==
    IF location = "self" THEN branches
    ELSE GetOr(branches.children, location, DefaultBranches)

(* Branches::get_subtree: the branches after the referenced subtree became sub *)
SetSubtree(branches, location, sub) ==
    IF location = "self" THEN sub
    ELSE [branches EXCEPT !.children = Put(@, location, sub)]

(* build_use_item_children_branches: the branches after the call *)
RECURSIVE BuildUseItemChildrenBranches(_, _)
RECURSIVE BuildBranchesGroup(_, _)
BuildUseItemChildrenBranches(tree, branches) ==
    CASE tree.t = "Path" ->
            SetSubtree(branches, tree.ident,
                BuildUseItemChildrenBranches(tree.tree, GetSubtree(branches, tree.ident)))
      [] tree.t = "Name" ->
            SetSubtree(branches, tree.ident,
                [GetSubtree(branches, tree.ident) EXCEPT !.used = @ \cup {Used}])
      [] tree.t = "Rename" ->
            SetSubtree(branches, tree.ident,
                [GetSubtree(branches, tree.ident) EXCEPT !.used = @ \cup {Renamed(tree.rename)}])
      [] tree.t = "Glob" -> [branches EXCEPT !.wildcard = TRUE]
      [] tree.t = "Group" -> BuildBranchesGroup(tree.items, branches)

BuildBranchesGroup(trees, branches) ==
    IF trees = <<>> THEN branches
    ELSE BuildBranchesGroup(Tail(trees), BuildUseItemChildrenBranches(Head(trees), branches))

TreeRoot(rooted, identifier) == [rooted |-> rooted, identifier |-> identifier]

(* build_use_item_children_root: ok and the children after the call, or the error *)
RECURSIVE BuildUseItemChildrenRoot(_, _, _)
RECURSIVE BuildRootGroup(_, _, _)
BuildUseItemChildrenRoot(tree, rooted, children) ==
    CASE tree.t = "Path" ->
            LET root == TreeRoot(rooted, tree.ident)
                subtree == GetOr(children, root, DefaultBranches)
            IN [ok |-> TRUE,
                children |-> Put(children, root,
                                 BuildUseItemChildrenBranches(tree.tree, subtree))]
      [] tree.t = "Name" ->
            LET root == TreeRoot(rooted, tree.ident)
                subtree == GetOr(children, root, DefaultBranches)
            IN [ok |-> TRUE,
                children |-> Put(children, root, [subtree EXCEPT !.used = @ \cup {Used}])]
      [] tree.t = "Rename" ->
            LET root == TreeRoot(rooted, tree.ident)
                subtree == GetOr(children, root, DefaultBranches)
            IN [ok |-> TRUE,
                children |-> Put(children, root,
                                 [subtree EXCEPT !.used = @ \cup {Renamed(tree.rename)}])]
      [] tree.t = "Glob" -> [ok |-> FALSE, error |-> "UseStar"]
      [] tree.t = "Group" -> BuildRootGroup(tree.items, rooted, children)

BuildRootGroup(trees, rooted, children) ==
    IF trees = <<>> THEN [ok |-> TRUE, children |-> children]
    ELSE LET first == BuildUseItemChildrenRoot(Head(trees), rooted, children)
         IN IF first.ok THEN BuildRootGroup(Tail(trees), rooted, first.children)
            ELSE first

(* syn::Attribute, as far as from_syn_use_item looks at it *)
CfgAttr(tokens) ==
    [style |-> "Outer", meta |-> "List", path |-> "cfg", delimiter |-> "Paren",
     tokens |-> tokens]
DocAttr(content) ==
    [style |-> "Outer", meta |-> "NameValue", path |-> "doc",
     value |-> [lit |-> "Str", attrs |-> <<>>, content |-> content]]

(* The attribute loop of from_syn_use_item: docs and configs, or the error *)
RECURSIVE LiftAttributes(_, _, _)
LiftAttributes(attrs, docs, configs) ==
    IF attrs = <<>> THEN [ok |-> TRUE, docs |-> docs, configs |-> configs]
    ELSE LET attr == Head(attrs) IN
         IF attr.style = "Inner" THEN [ok |-> FALSE, error |-> "InnerAttributes"]
         ELSE CASE attr.meta = "List" ->
                     IF attr.delimiter # "Paren"
                     THEN [ok |-> FALSE, error |-> "UnrecognizedAttribute"]
                     ELSE IF attr.path = "cfg"
                     THEN LiftAttributes(Tail(attrs), docs, configs \cup {attr.tokens})
                     ELSE [ok |-> FALSE, error |-> "UnrecognizedAttribute"]
                [] attr.meta = "NameValue" ->
                     IF attr.path = "doc"
                     THEN IF attr.value.lit = "Str" /\ attr.value.attrs = <<>>
                          THEN LiftAttributes(Tail(attrs), Append(docs, attr.value.content),
                                              configs)
                          ELSE [ok |-> FALSE, error |-> "MalformedDocAttribute"]
                     ELSE [ok |-> FALSE, error |-> "UnrecognizedAttribute"]
                [] attr.meta = "Path" -> [ok |-> FALSE, error |-> "UnrecognizedAttribute"]

(* syn::ItemUse *)
ItemUse(attrs, vis, leading_colon, tree) ==
    [attrs |-> attrs, vis |-> vis, leading_colon |-> leading_colon, tree |-> tree]

(* UseItem::from_syn_use_item: ok and the UseItem, or the error *)
FromSynUseItem(item) ==
    LET lifted == LiftAttributes(item.attrs, <<>>, {}) IN
    IF ~lifted.ok THEN lifted
    ELSE LET visibility == FromSynVis(item.vis) IN
         IF ~visibility.ok THEN visibility
         ELSE LET built == BuildUseItemChildrenRoot(
                               item.tree,
                               IF item.leading_colon THEN Rooted ELSE Unrooted,
                               EmptyMap)
              IN IF ~built.ok THEN built
                 ELSE [ok |-> TRUE,
                       item |-> [docs |-> lifted.docs,
                                 configs |-> lifted.configs,
                                 visibility |-> visibility.vis,
                                 children |-> built.children]]

-----------------------------------------------------------------------------
(* flattened.rs *)

Wildcard == [kind |-> "Wildcard"]
Plain(name, usage) == [kind |-> "Plain", name |-> name, usage |-> usage]

SingleUsedItem(rooted, path, leaf) == [rooted |-> rooted, path |-> path, leaf |-> leaf]

(* UsedItemPropertiesGroup::default() *)
DefaultGroup == [visibility |-> NoVis, docs |-> <<>>]

(* merge_visibilities with the comparison of the two path lengths reversed *)
MergeVisibilitiesLongerPath(vis1, vis2) ==
    CASE vis1.kind = "None" -> vis2
      [] vis2.kind = "None" -> vis1
      [] vis1.kind = "This" -> vis2
      [] vis2.kind = "This" -> vis1
      [] vis1.kind = "Super" -> vis2
      [] vis2.kind = "Super" -> vis1
      [] vis1.kind = "In" /\ vis2.kind = "In" ->
            IF Len(vis1.segments) > Len(vis2.segments) THEN vis1 ELSE vis2
      [] vis1.kind = "In" -> vis2
      [] vis2.kind = "In" -> vis1
      [] vis1.kind = "Crate" -> vis2
      [] vis2.kind = "Crate" -> vis1
      [] OTHER -> Public

(* merge_visibilities, arm by arm *)
MergeVisibilities(vis1, vis2) ==
    CASE vis1.kind = "None" -> vis2
      [] vis2.kind = "None" -> vis1
      [] vis1.kind = "This" -> vis2
      [] vis2.kind = "This" -> vis1
      [] vis1.kind = "Super" -> vis2
      [] vis2.kind = "Super" -> vis1
      [] vis1.kind = "In" /\ vis2.kind = "In" ->
            IF Len(vis1.segments) < Len(vis2.segments) THEN vis1 ELSE vis2
      [] vis1.kind = "In" -> vis2
      [] vis2.kind = "In" -> vis1
      [] vis1.kind = "Crate" -> vis2
      [] vis2.kind = "Crate" -> vis1
      [] OTHER -> Public

(* UsedItemPropertiesGroup::merge: the group after the call *)
Merge(self, visibility, docs) ==
    [visibility |-> MergeVisibilities(self.visibility, visibility),
     docs |-> Combine(self.docs, docs)]

(* Ord of Config (a String): the conditions of the model in ascending order *)
ConfigOrder == <<"unix", "windows">>

ConfigRank(config) == CHOOSE i \in DOMAIN ConfigOrder : ConfigOrder[i] = config

(* The elements of a BTreeSet<Config> in iteration order *)
RECURSIVE ConfigsInOrder(_)
ConfigsInOrder(configs) ==
    IF configs = {} THEN <<>>
    ELSE LET least == CHOOSE c \in configs :
                          \A d \in configs : ConfigRank(c) <= ConfigRank(d)
         IN <<least>> \o ConfigsInOrder(configs \ {least})

(* Ord of ConfigsList: lexicographic over the ordered elements *)
RECURSIVE SeqLess(_, _)
SeqLess(x, y) ==
    IF y = <<>> THEN FALSE
    ELSE IF x = <<>> THEN TRUE
    ELSE IF ConfigRank(Head(x)) # ConfigRank(Head(y))
         THEN ConfigRank(Head(x)) < ConfigRank(Head(y))
    ELSE SeqLess(Tail(x), Tail(y))

ConfigsLess(c1, c2) == SeqLess(ConfigsInOrder(c1), ConfigsInOrder(c2))

(* properties_groups.values().fold(default, merge): in ascending key order *)
RECURSIVE FoldGroups(_, _)
FoldGroups(properties_groups, merged) ==
    IF DOMAIN properties_groups = {} THEN merged
    ELSE LET first == CHOOSE c \in DOMAIN properties_groups :
                          \A d \in DOMAIN properties_groups : c = d \/ ConfigsLess(c, d)
             props == properties_groups[first]
             rest == [c \in DOMAIN properties_groups \ {first} |-> properties_groups[c]]
         IN FoldGroups(rest, Merge(merged, props.visibility, props.docs))

(* add_properties without the lookup of an existing unconditional group *)
AddPropertiesNoLookup(properties_groups, item) ==
    LET prepared ==
            IF item.configs \in DOMAIN properties_groups
            THEN properties_groups
            ELSE IF item.configs = {}
            THEN Put(EmptyMap, {}, FoldGroups(properties_groups, DefaultGroup))
            ELSE Put(properties_groups, item.configs, DefaultGroup)
    IN [prepared EXCEPT ![item.configs] = Merge(@, item.visibility, item.docs)]

(* add_properties without the clear() before the unconditional group is inserted *)
AddPropertiesNoClear(properties_groups, item) ==
    LET prepared ==
            IF {} \in DOMAIN properties_groups
            THEN properties_groups
            ELSE IF item.configs = {}
            THEN Put(properties_groups, {}, FoldGroups(properties_groups, DefaultGroup))
            ELSE IF item.configs \in DOMAIN properties_groups
            THEN properties_groups
            ELSE Put(properties_groups, item.configs, DefaultGroup)
        key == IF {} \in DOMAIN prepared THEN {} ELSE item.configs
    IN [prepared EXCEPT ![key] = Merge(@, item.visibility, item.docs)]

(* add_properties: the properties_groups after the call *)
AddProperties(properties_groups, item) ==
    LET prepared ==
            IF {} \in DOMAIN properties_groups
            THEN properties_groups
            ELSE IF item.configs = {}
            THEN Put(EmptyMap, {}, FoldGroups(properties_groups, DefaultGroup))
            ELSE IF item.configs \in DOMAIN properties_groups
            THEN properties_groups
            ELSE Put(properties_groups, item.configs, DefaultGroup)
        key == IF {} \in DOMAIN prepared THEN {} ELSE item.configs
    IN [prepared EXCEPT ![key] = Merge(@, item.visibility, item.docs)]

(* insert(item, ..) in place of entry(item).or_default(): the groups start over *)
AddEntryReplacing(map, key, use_item) ==
    Put(map, key, AddProperties(EmptyMap, use_item))

(* self.items.entry(item).or_default() followed by add_properties *)
AddEntry(map, key, use_item) ==
    Put(map, key, AddProperties(GetOr(map, key, EmptyMap), use_item))

(* add_branches: the items after the call. The prefix is the PathChain as *)
(* a list (to_list). The used set and the children map are iterated in an *)
(* arbitrary order; every iteration touches a different key of the items. *)
RECURSIVE AddBranches(_, _, _, _, _)
RECURSIVE AddUsed(_, _, _, _, _)
RECURSIVE AddChildren(_, _, _, _, _)
AddBranches(map, rooted, prefix, use_item, branches) ==
    LET withWildcard ==
            IF branches.wildcard
            THEN AddEntry(map, SingleUsedItem(rooted, prefix, Wildcard), use_item)
            ELSE map
        withUsed == AddUsed(withWildcard, rooted, prefix, use_item, branches.used)
    IN AddChildren(withUsed, rooted, prefix, use_item, branches.children)

AddUsed(map, rooted, prefix, use_item, used) ==
    IF used = {} THEN map
    ELSE LET usage == CHOOSE u \in used : TRUE
             leaf == prefix[Len(prefix)]
             path == SubSeq(prefix, 1, Len(prefix) - 1)
             item == SingleUsedItem(rooted, path, Plain(leaf, usage))
         IN AddUsed(AddEntry(map, item, use_item), rooted, prefix, use_item,
                    used \ {usage})

AddChildren(map, rooted, prefix, use_item, children) ==
    IF DOMAIN children = {} THEN map
    ELSE LET child == CHOOSE c \in DOMAIN children : TRUE
             rest == [c \in DOMAIN children \ {child} |-> children[c]]
         IN AddChildren(
                AddBranches(map, rooted, Append(prefix, child), use_item, children[child]),
                rooted, prefix, use_item, rest)

(* NormalizedUsedItems::add_tree: the items after the call *)
RECURSIVE AddTreeRoots(_, _, _)
AddTreeRoots(map, use_item, roots) ==
    IF roots = {} THEN map
    ELSE LET root == CHOOSE r \in roots : TRUE
         IN AddTreeRoots(
                AddBranches(map, root.rooted, <<root.identifier>>, use_item,
                            use_item.children[root]),
                use_item, roots \ {root})

AddTree(map, use_item) == AddTreeRoots(map, use_item, DOMAIN use_item.children)

-----------------------------------------------------------------------------
(* The rewriter as a state machine *)

Init ==
    /\ pc = "start"
    /\ SubsumeIdle /\ PrintIdle /\ ParseIdle /\ OrderIdle /\ BuildIdle /\ IdentIdle /\ PipeIdle
    /\ items = EmptyMap /\ added = <<>>
    /\ group = DefaultGroup /\ merge_args = <<>>
    /\ original \in GitFiles
    /\ discarded_lines \in SUBSET LineNumbersOf(original)
    /\ formatted_use_items \in Buffers
    /\ insert_point = Nowhere
    /\ dest = <<>>
    /\ parts = <<>>

(* write_corrected_file(dest, original, discarded_lines, formatted_use_items) *)
WriteCorrectedFile ==
    /\ pc = "start"
    /\ LET ip == FindInsertPoint(original, discarded_lines)
           result == WriteUntilInserted(original, discarded_lines, formatted_use_items,
                                        ip, 1, [dest |-> <<>>, parts |-> <<>>])
       IN /\ insert_point' = ip
          /\ dest' = result.dest
          /\ parts' = result.parts
    /\ pc' = "done"
    /\ UNCHANGED <<original, discarded_lines, formatted_use_items, flattenVars, mergeVars,
                   subsumeVars, printVars, parseVars, orderVars, buildVars, identVars, pipeVars>>

Next == WriteCorrectedFile

Spec == Init /\ [][Next]_vars

-----------------------------------------------------------------------------
(* Properties of the rewriter, stated over the input and the writes made *)

Done == pc = "done"

ConflictChunks == {i \in DOMAIN original : original[i].type = "Conflict"}

LineNumbers(lines) == [i \in DOMAIN lines |-> lines[i].line_number]

ContentBytes(lines) == [i \in DOMAIN lines |-> <<lines[i].content>>]

Kept(lines) ==
    LET NotDiscarded(l) == l.line_number \notin discarded_lines
    IN SelectSeq(lines, NotDiscarded)

Before(lines, n) ==
    LET Earlier(l) == l.line_number < n IN SelectSeq(lines, Earlier)

After(lines, n) ==
    LET Later(l) == l.line_number > n IN SelectSeq(lines, Later)

Without(numbers, excluded) ==
    LET Stays(n) == n \notin excluded IN SelectSeq(numbers, Stays)

(* The lines of one side of the file: plain lines and that side's halves *)
RECURSIVE SideLinesOf(_, _)
SideLinesOf(chunks, side) ==
    IF chunks = <<>> THEN <<>>
    ELSE LET chunk == Head(chunks)
             here == IF chunk.type = "Line" THEN <<chunk.line>>
                     ELSE IF side = "left" THEN chunk.left.lines
                     ELSE chunk.right.lines
         IN here \o SideLinesOf(Tail(chunks), side)

(* The line numbers written to dest that belong to one side, in write order *)
WrittenOf(side) ==
    LET numbers == Range(LineNumbers(SideLinesOf(original, side)))
        OfSide(w) == w.kind = "line" /\ w.ln \in numbers
    IN LineNumbers([i \in DOMAIN SelectSeq(dest, OfSide) |->
                      [line_number |-> SelectSeq(dest, OfSide)[i].ln]])

CountKind(kind) == Cardinality({i \in DOMAIN dest : dest[i].kind = kind})

(* The lines that carry the insert point *)
AnchorLines ==
    CASE insert_point.type = "Nowhere" -> {}
      [] insert_point.type = "Once" -> {insert_point.point}
      [] insert_point.type = "IntoConflict" -> {insert_point.left, insert_point.right}

(* A half after filtering against D and substituting the buffer at an anchor line *)
RECURSIVE SubstitutedBytes(_)
SubstitutedBytes(lines) ==
    IF lines = <<>> THEN <<>>
    ELSE LET l == Head(lines) IN
         (IF l.line_number \in AnchorLines THEN <<formatted_use_items>>
          ELSE IF l.line_number \in discarded_lines THEN <<>>
          ELSE <<<<l.content>>>>)
         \o SubstitutedBytes(Tail(lines))

IdenticalAfterFiltering(c) ==
    ContentBytes(Kept(c.left.lines)) = ContentBytes(Kept(c.right.lines))

(* The conflict that holds both lines of the insert point is split there *)
IsSplit(c) ==
    /\ insert_point.type = "IntoConflict"
    /\ insert_point.left \in Range(LineNumbers(c.left.lines))
    /\ insert_point.right \in Range(LineNumbers(c.right.lines))

TopLeft(c) == Before(c.left.lines, insert_point.left)
TopRight(c) == Before(c.right.lines, insert_point.right)
BottomLeft(c) == Kept(After(c.left.lines, insert_point.left))
BottomRight(c) == Kept(After(c.right.lines, insert_point.right))

(* The right-half lines that are not written because the part of the      *)
(* conflict they are in has two byte-identical halves                      *)
CollapsedRight(c) ==
    IF IsSplit(c)
    THEN (IF ContentBytes(TopLeft(c)) = ContentBytes(TopRight(c))
          THEN Range(LineNumbers(TopRight(c))) ELSE {})
         \cup
         (IF ContentBytes(BottomLeft(c)) = ContentBytes(BottomRight(c))
          THEN Range(LineNumbers(BottomRight(c))) ELSE {})
    ELSE IF SubstitutedBytes(c.left.lines) = SubstitutedBytes(c.right.lines)
         THEN Range(LineNumbers(c.right.lines)) ELSE {}

AllCollapsedRight == UNION {CollapsedRight(original[i]) : i \in ConflictChunks}

PermittedLoss ==
    UNION {Range(LineNumbers(original[i].right.lines)) :
             i \in {j \in ConflictChunks : IdenticalAfterFiltering(original[j])}}

(* C1 as stated: every line whose number is not in D is written, in its    *)
(* original order within its side; the only lines that may be missing are  *)
(* those of a conflict whose two halves are identical after filtering,     *)
(* which is written once.                                                  *)
C1_LosslessAsStated ==
    Done =>
        /\ WrittenOf("left") = LineNumbers(Kept(SideLinesOf(original, "left")))
        /\ Without(WrittenOf("right"), PermittedLoss)
             = Without(LineNumbers(Kept(SideLinesOf(original, "right"))), PermittedLoss)

(* C1, amended: every line whose number is not in D is written, in its     *)
(* original order within its side, except the right-half lines of a        *)
(* written conflict part (a whole conflict after filtering and after the   *)
(* substitution of B for an anchor line, or the top or the bottom of the   *)
(* conflict split at the anchor) whose two halves are byte-identical; such *)
(* a part is written once. No other line is written.                       *)
C1_Lossless ==
    Done =>
        /\ WrittenOf("left") = LineNumbers(Kept(SideLinesOf(original, "left")))
        /\ WrittenOf("right")
             = Without(LineNumbers(Kept(SideLinesOf(original, "right"))), AllCollapsedRight)

(* A run where a discarded line was dropped and a nonempty conflict part   *)
(* collapsed, so that kept right-half lines were not written a second time *)
C1_Witness ==
    /\ Done
    /\ discarded_lines # {}
    /\ AllCollapsedRight \ discarded_lines # {}
    /\ \E i \in DOMAIN dest : dest[i].kind = "line"

(* C2: when no line of the file is in D (the insert point is Nowhere), B   *)
(* is written immediately before the first chunk, so B is written for      *)
(* every input.                                                            *)
C2_BufferWrittenWhenNowhere ==
    (Done /\ discarded_lines \cap LineNumbersOf(original) = {}) =>
        /\ dest # <<>>
        /\ dest[1] = BufferWrite(formatted_use_items)

(* The marker triples written for the parts of one conflict chunk *)
TriplesFor(i) ==
    Cardinality({j \in DOMAIN parts :
                   /\ parts[j].chunk = i
                   /\ \E k \in DOMAIN parts[j].written :
                        parts[j].written[k].kind = "header"})

(* C3 as stated: the number of header/separator/footer triples written     *)
(* equals the number of conflicts minus the number of conflicts whose two  *)
(* halves are identical after filtering, and no conflict yields more than  *)
(* one triple.                                                             *)
C3_MarkerBalanceAsStated ==
    Done =>
        /\ CountKind("header")
             = Cardinality(ConflictChunks)
               - Cardinality({i \in ConflictChunks : IdenticalAfterFiltering(original[i])})
        /\ CountKind("separator") = CountKind("header")
        /\ CountKind("footer") = CountKind("header")
        /\ \A i \in ConflictChunks : TriplesFor(i) <= 1

Differ(x, y) == IF x = y THEN 0 ELSE 1

ExpectedTriples(i) ==
    LET c == original[i] IN
    IF IsSplit(c)
    THEN Differ(ContentBytes(TopLeft(c)), ContentBytes(TopRight(c)))
         + Differ(ContentBytes(BottomLeft(c)), ContentBytes(BottomRight(c)))
    ELSE Differ(SubstitutedBytes(c.left.lines), SubstitutedBytes(c.right.lines))

RECURSIVE SumExpectedTriples(_)
SumExpectedTriples(chunks) ==
    IF chunks = {} THEN 0
    ELSE LET i == CHOOSE j \in chunks : TRUE
         IN ExpectedTriples(i) + SumExpectedTriples(chunks \ {i})

(* C3, amended: the number of header/separator/footer triples written      *)
(* equals the number of written conflict parts whose two halves differ,    *)
(* where a conflict that is not split is one part (its halves filtered,    *)
(* with B substituted for an anchor line) and the one conflict split at    *)
(* the anchor is two parts (top and bottom); an input conflict yields at   *)
(* most one triple unless it is the split one, which yields at most two.   *)
C3_MarkerBalance ==
    Done =>
        /\ CountKind("header") = SumExpectedTriples(ConflictChunks)
        /\ CountKind("separator") = CountKind("header")
        /\ CountKind("footer") = CountKind("header")
        /\ \A i \in ConflictChunks :
             TriplesFor(i) <= (IF IsSplit(original[i]) THEN 2 ELSE 1)
        /\ Cardinality({i \in ConflictChunks : IsSplit(original[i])}) <= 1

(* A run where the split conflict was written as two marker triples and    *)
(* another conflict collapsed to no triple                                 *)
C3_Witness ==
    /\ Done
    /\ \E i \in ConflictChunks : TriplesFor(i) = 2
    /\ \E i \in ConflictChunks : TriplesFor(i) = 0

IsInfix(s, t) ==
    \E k \in 0..(Len(t) - Len(s)) : SubSeq(t, k + 1, k + Len(s)) = s

Markers == {"header", "separator", "footer"}

(* The two halves of a part as the input determines them *)
ExpectedHalves(part) ==
    LET c == original[part.chunk] IN
    CASE part.role = "top" ->
            <<ContentBytes(TopLeft(c)), ContentBytes(TopRight(c))>>
      [] part.role = "bottom" ->
            <<ContentBytes(BottomLeft(c)), ContentBytes(BottomRight(c))>>
      [] part.role = "whole" ->
            <<SubstitutedBytes(c.left.lines), SubstitutedBytes(c.right.lines)>>

(* C4: whenever a conflict is written (whole, or as the top or bottom part *)
(* of a split conflict), its halves are compared after filtering and       *)
(* substitution: identical halves (both empty included) are written once   *)
(* with no marker; otherwise the header with the left branch name, the     *)
(* left lines, the separator, the right lines and the footer with the      *)
(* right branch name are written, in that order.                           *)
C4_WriteConflict ==
    Done =>
        \A j \in DOMAIN parts :
            LET part == parts[j]
                halves == ExpectedHalves(part)
                left == halves[1]
                right == halves[2]
            IN /\ IsInfix(part.written, dest)
               /\ left = right =>
                    /\ BytesOf(part.written) = left
                    /\ \A k \in DOMAIN part.written : part.written[k].kind \notin Markers
               /\ left # right =>
                    /\ BytesOf(part.written)
                         = << <<"<<<<<<< " \o original[part.chunk].left.name>> >>
                           \o left \o << <<"=======">> >> \o right
                           \o << <<">>>>>>> " \o original[part.chunk].right.name>> >>
                    /\ {k \in DOMAIN part.written : part.written[k].kind \in Markers}
                         = {1, Len(left) + 2, Len(part.written)}

(* A run that wrote one conflict with identical nonempty halves unmarked   *)
(* and one with differing halves, one of which holds the substituted B     *)
C4_Witness ==
    /\ Done
    /\ \E j \in DOMAIN parts :
         /\ parts[j].written # <<>>
         /\ \A k \in DOMAIN parts[j].written : parts[j].written[k].kind \notin Markers
    /\ \E j \in DOMAIN parts :
         /\ \E k \in DOMAIN parts[j].written : parts[j].written[k].kind = "header"
         /\ \E k \in DOMAIN parts[j].written : parts[j].written[k].kind = "buffer"

Minimum(set) == CHOOSE n \in set : \A m \in set : n <= m

DiscardedIn(lines) == Range(LineNumbers(lines)) \cap discarded_lines

(* A chunk that decides the anchor by itself *)
Decisive(i) ==
    LET chunk == original[i] IN
    IF chunk.type = "Line" THEN chunk.line.line_number \in discarded_lines
    ELSE DiscardedIn(chunk.left.lines) # {} /\ DiscardedIn(chunk.right.lines) # {}

OneSided(i) ==
    /\ original[i].type = "Conflict"
    /\ ~Decisive(i)
    /\ DiscardedIn(original[i].left.lines) \cup DiscardedIn(original[i].right.lines) # {}

(* C5: the anchor is decided by the first chunk that is a plain line in D  *)
(* (SingleLine of it) or a conflict with lines in D in both halves         *)
(* (InsideConflict of the first D line of each half), whatever one-sided   *)
(* conflicts precede it; without such a chunk it is built from the first   *)
(* left-only and the first right-only D line (InsideConflict if both       *)
(* exist, SingleLine if one exists, Nowhere if none).                      *)
C5_AnchorChoice ==
    Done =>
        LET decisive == {i \in DOMAIN original : Decisive(i)}
            lefts == UNION {DiscardedIn(original[i].left.lines) : i \in ConflictChunks}
            rights == UNION {DiscardedIn(original[i].right.lines) : i \in ConflictChunks}
        IN IF decisive # {}
           THEN LET chunk == original[Minimum(decisive)] IN
                IF chunk.type = "Line"
                THEN insert_point = Once(chunk.line.line_number)
                ELSE insert_point = IntoConflict(Minimum(DiscardedIn(chunk.left.lines)),
                                                 Minimum(DiscardedIn(chunk.right.lines)))
           ELSE IF lefts # {} /\ rights # {}
                THEN insert_point = IntoConflict(Minimum(lefts), Minimum(rights))
           ELSE IF lefts \cup rights # {}
                THEN insert_point = Once(Minimum(lefts \cup rights))
           ELSE insert_point = Nowhere

(* A run where conflicts with D lines on one side only precede the chunk   *)
(* that decides the anchor                                                 *)
C5_Witness ==
    /\ Done
    /\ \E i, j \in DOMAIN original : i < j /\ OneSided(i) /\ Decisive(j)
    /\ insert_point.type = "IntoConflict"

RECURSIVE Concat(_)
Concat(seqs) == IF seqs = <<>> THEN <<>> ELSE Head(seqs) \o Concat(Tail(seqs))

(* The file is free of conflicts and D is exactly a block of lines that    *)
(* holds the bytes of B                                                    *)
HoldsInsertedBuffer ==
    /\ ConflictChunks = {}
    /\ \E first \in 1..Len(original) :
         LET last == first + Len(formatted_use_items) - 1 IN
         /\ last <= Len(original)
         /\ discarded_lines = first..last
         /\ \A i \in first..last :
              original[i].line.content = formatted_use_items[i - first + 1]

-----------------------------------------------------------------------------
(* Flattening use items into one NormalizedUsedItems *)

TreeAB == UsePath("a", UseName("b"))
TreeAStar == UsePath("a", UseGlob)
TreeAGroup == UsePath("a", UseGroup(<<UseRename("b", "_"), UsePath("c", UseName("d"))>>))
TreeABSelf == UsePath("a", UsePath("b", UseGroup(<<UseName("self"), UseName("c")>>)))

UseTrees == {TreeAB, TreeAStar, TreeAGroup, TreeABSelf}

Attributes ==
    { [attrs |-> <<>>, vis |-> SynInherited],
      [attrs |-> <<DocAttr(<<"x">>)>>, vis |-> SynPublic],
      [attrs |-> <<DocAttr(<<"y">>), CfgAttr("unix")>>, vis |-> SynInherited],
      [attrs |-> <<CfgAttr("windows")>>, vis |-> SynRestricted(TRUE, <<"a">>)],
      [attrs |-> <<CfgAttr("unix")>>, vis |-> SynRestricted(TRUE, <<"b">>)] }

(* The use declarations that the explored files contain *)
Declarations ==
    {ItemUse(a.attrs, a.vis, FALSE, t) : a \in Attributes, t \in UseTrees}
    \cup {ItemUse(<<>>, SynInherited, TRUE, TreeAB),
          ItemUse(<<>>, SynInherited, FALSE, UseGlob)}

WriterIdle ==
    /\ original = <<>> /\ discarded_lines = {} /\ formatted_use_items = <<>>
    /\ insert_point = Nowhere /\ dest = <<>> /\ parts = <<>>

InitFlatten ==
    /\ pc = "flatten"
    /\ SubsumeIdle /\ PrintIdle /\ ParseIdle /\ OrderIdle /\ BuildIdle /\ IdentIdle /\ PipeIdle
    /\ items = EmptyMap /\ added = <<>>
    /\ group = DefaultGroup /\ merge_args = <<>>
    /\ WriterIdle

(* from_syn_use_item on one declaration, then add_tree of the UseItem *)
AddTreeStep ==
    /\ pc = "flatten"
    /\ Len(added) < MaxAdds
    /\ \E decl \in Declarations :
          LET result == FromSynUseItem(decl) IN
          /\ result.ok
          /\ items' = AddTree(items, result.item)
          /\ added' = Append(added, result.item)
    /\ UNCHANGED <<pc, writerVars, mergeVars, subsumeVars, printVars, parseVars, orderVars, buildVars, identVars, pipeVars>>

NextFlatten == AddTreeStep

SpecFlatten == InitFlatten /\ [][NextFlatten]_vars

-----------------------------------------------------------------------------
(* Properties of the flatten step *)

Idents == {"a", "b", "c", "d"}

MaxDepth == 3         \* path segments below a root in the explored trees

PathsUpTo(n) == UNION {[1..k -> Idents] : k \in 0..n}

(* The Branches at a path below the given branches, if the path exists *)
RECURSIVE HasNode(_, _)
HasNode(branches, path) ==
    \/ path = <<>>
    \/ /\ Head(path) \in DOMAIN branches.children
       /\ HasNode(branches.children[Head(path)], Tail(path))

RECURSIVE NodeAt(_, _)
NodeAt(branches, path) ==
    IF path = <<>> THEN branches
    ELSE NodeAt(branches.children[Head(path)], Tail(path))

(* The flattened paths a UseItem asks for: one per wildcard flag and one   *)
(* per leaf use of its tree                                                *)
FlattenedPathsOf(use_item) ==
    UNION {
      UNION {
        LET node == NodeAt(use_item.children[root], below)
            full == <<root.identifier>> \o below
        IN (IF node.wildcard
            THEN {SingleUsedItem(root.rooted, full, Wildcard)} ELSE {})
           \cup
           {SingleUsedItem(root.rooted, SubSeq(full, 1, Len(full) - 1),
                           Plain(full[Len(full)], usage)) : usage \in node.used} :
        below \in {p \in PathsUpTo(MaxDepth) : HasNode(use_item.children[root], p)}} :
      root \in DOMAIN use_item.children}

(* C7: after any sequence of add_tree calls, every leaf use and every      *)
(* wildcard flag of every item added so far has its (rooted, path, leaf)   *)
(* triple as a key of the normalized map, and the condition-set map of     *)
(* that key is not empty and holds the item's own condition-set or the     *)
(* unconditional one; so no flattened path is removed by a later addition. *)
C7_Union ==
    \A n \in DOMAIN added :
        /\ FlattenedPathsOf(added[n]) # {}
        /\ \A key \in FlattenedPathsOf(added[n]) :
             /\ key \in DOMAIN items
             /\ DOMAIN items[key] # {}
             /\ added[n].configs \in DOMAIN items[key] \/ {} \in DOMAIN items[key]

(* Three items were added; a wildcard, a renamed leaf and a nested leaf    *)
(* are keys, and an item added under a condition is found under the        *)
(* unconditional entry of its path                                         *)
C7_Witness ==
    /\ Len(added) = 3
    /\ \E key \in DOMAIN items : key.leaf = Wildcard
    /\ \E key \in DOMAIN items : key.leaf.kind = "Plain" /\ key.leaf.usage # Used
    /\ \E key \in DOMAIN items : Len(key.path) = 2
    /\ \E n \in DOMAIN added : \E key \in FlattenedPathsOf(added[n]) :
         added[n].configs # {} /\ added[n].configs \notin DOMAIN items[key]

Unconditional(map, key) == key \in DOMAIN map /\ {} \in DOMAIN map[key]

(* C8: the condition-set map of a path never holds an unconditional entry  *)
(* together with a conditional one; once an unconditional entry exists it  *)
(* stays the only entry, and every later item with that path, conditional  *)
(* or not, is merged into it.                                              *)
C8_ConfigNormalization ==
    [][ \A key \in DOMAIN items' :
          /\ Unconditional(items', key) => DOMAIN items'[key] = {{}}
          /\ Unconditional(items, key) =>
               /\ DOMAIN items'[key] = {{}}
               /\ LET item == added'[Len(added')] IN
                  items'[key][{}] =
                      IF key \in FlattenedPathsOf(item)
                      THEN Merge(items[key][{}], item.visibility, item.docs)
                      ELSE items[key][{}]
      ]_vars

(* A conditional item, then an unconditional one, then another conditional *)
(* one were added for the same path, which holds one unconditional entry   *)
C8_Witness ==
    /\ Len(added) = 3
    /\ added[1].configs # {} /\ added[2].configs = {} /\ added[3].configs # {}
    /\ added[1].configs # added[3].configs
    /\ \E key \in DOMAIN items :
         /\ \A n \in 1..3 : key \in FlattenedPathsOf(added[n])
         /\ DOMAIN items[key] = {{}}

Orders(n) == {f \in [1..n -> 1..n] : \A i, j \in 1..n : f[i] = f[j] => i = j}

(* The normalized map after adding the items of a list in order *)
RECURSIVE NormalizedFrom(_, _)
NormalizedFrom(map, use_items) ==
    IF use_items = <<>> THEN map
    ELSE NormalizedFrom(AddTree(map, Head(use_items)), Tail(use_items))

Reordered(order) == [i \in DOMAIN added |-> added[order[i]]]

(* C9 as stated: the normalized map (its keys, the condition-sets under    *)
(* each key, and the merged visibility and docs of each entry) is the same *)
(* for every order in which the items are added.                           *)
C9_CommutativeAsStated ==
    \A order \in Orders(Len(added)) :
        NormalizedFrom(EmptyMap, Reordered(order)) = items

(* pub(in path) visibilities are told apart by their number of segments only *)
VisibilityClass(visibility) ==
    IF visibility.kind = "In" THEN <<"In", Len(visibility.segments)>>
    ELSE <<visibility.kind, 0>>

(* The keys, the condition-sets under each key and the class of the merged *)
(* visibility of each entry                                                *)
Outline(map) ==
    [key \in DOMAIN map |->
        [configs \in DOMAIN map[key] |-> VisibilityClass(map[key][configs].visibility)]]

(* C9, amended: the keys of the normalized map and the condition-sets      *)
(* under each key are the same for every order in which the items are      *)
(* added, and so is the kind of each merged visibility (for pub(in path),  *)
(* its number of segments); the merged docs, and which of two pub(in path) *)
(* visibilities with equally many segments is kept, depend on the order.   *)
C9_Commutative ==
    \A order \in Orders(Len(added)) :
        Outline(NormalizedFrom(EmptyMap, Reordered(order))) = Outline(items)

(* Items were added whose other orders give the same keys and              *)
(* condition-sets but other docs or another pub(in path)                   *)
C9_Witness ==
    /\ Len(added) >= 2
    /\ \E order \in Orders(Len(added)) :
         NormalizedFrom(EmptyMap, Reordered(order)) # items
    /\ \E key \in DOMAIN items : Cardinality(DOMAIN items[key]) >= 2

-----------------------------------------------------------------------------
(* Merging properties into one UsedItemPropertiesGroup *)

Visibilities ==
    {NoVis, This, Super, Crate, Public, In(<<"a">>), In(<<"b">>), In(<<"a", "b">>)}

DocsLists ==
    {<<>>, << <<>> >>, << <<"x">> >>, << <<"y">> >>, << <<"x", "y">> >>, << <<"x">>, <<"y">> >>}

InitMerge ==
    /\ pc = "merge"
    /\ SubsumeIdle /\ PrintIdle /\ ParseIdle /\ OrderIdle /\ BuildIdle /\ IdentIdle /\ PipeIdle
    /\ group = DefaultGroup /\ merge_args = <<>>
    /\ items = EmptyMap /\ added = <<>>
    /\ WriterIdle

(* group.merge(visibility, docs) *)
MergeStep ==
    /\ pc = "merge"
    /\ \E visibility \in Visibilities, docs \in DocsLists :
          /\ DocsLen(group.docs) + DocsLen(docs) <= MaxDocBytes
          /\ group' = Merge(group, visibility, docs)
          /\ merge_args' = <<group, visibility, docs>>
    /\ UNCHANGED <<pc, writerVars, flattenVars, subsumeVars, printVars, parseVars, orderVars, buildVars, identVars, pipeVars>>

NextMerge == MergeStep

SpecMerge == InitMerge /\ [][NextMerge]_vars

-----------------------------------------------------------------------------
(* Properties of the merge of two visibilities *)

(* none < pub(self) < pub(super) < pub(in path) < pub(crate) < pub *)
Publicity(visibility) ==
    CASE visibility.kind = "None" -> 0
      [] visibility.kind = "This" -> 1
      [] visibility.kind = "Super" -> 2
      [] visibility.kind = "In" -> 3
      [] visibility.kind = "Crate" -> 4
      [] visibility.kind = "Public" -> 5

(* C10: merge_visibilities returns the argument that is greatest in the    *)
(* order none < pub(self) <= pub(super) <= pub(in path) <= pub(crate) <=   *)
(* pub; an absent visibility is replaced by any present one, and of two    *)
(* pub(in path) visibilities the one with fewer path segments is returned. *)
C10_MostPublicWins ==
    merge_args # <<>> =>
        LET vis1 == merge_args[1].visibility
            vis2 == merge_args[2]
            merged == group.visibility
        IN /\ merged \in {vis1, vis2}
           /\ Publicity(merged) >= Publicity(vis1)
           /\ Publicity(merged) >= Publicity(vis2)
           /\ vis1 = NoVis => merged = vis2
           /\ vis2 = NoVis => merged = vis1
           /\ (vis1.kind = "In" /\ vis2.kind = "In") =>
                /\ Len(merged.segments) <= Len(vis1.segments)
                /\ Len(merged.segments) <= Len(vis2.segments)

(* A longer pub(in path) was merged into a group holding a shorter one,    *)
(* which was kept                                                          *)
C10_Witness ==
    /\ merge_args # <<>>
    /\ merge_args[1].visibility.kind = "In"
    /\ merge_args[2].kind = "In"
    /\ Len(merge_args[1].visibility.segments) < Len(merge_args[2].segments)
    /\ group.visibility = merge_args[1].visibility

-----------------------------------------------------------------------------
(* Properties of the merge of two doc lists *)

IsPrefixOf(x, y) == Len(x) <= Len(y) /\ SubSeq(y, 1, Len(x)) = x

IsSuffixOf(x, y) == Len(x) <= Len(y) /\ SubSeq(y, Len(y) - Len(x) + 1, Len(y)) = x

(* One byte string starts or ends the other *)
Overlapping(x, y) ==
    IsPrefixOf(x, y) \/ IsPrefixOf(y, x) \/ IsSuffixOf(x, y) \/ IsSuffixOf(y, x)

(* C11: DocsList::combine keeps the longer of the two doc lists when the   *)
(* bytes of one are a prefix or a suffix of the bytes of the other (the    *)
(* receiver when both are equally long), and otherwise the result is the   *)
(* receiver's list followed by the argument's; combining a list with       *)
(* itself or with an empty list leaves it unchanged.                       *)
C11_DocsCombine ==
    merge_args # <<>> =>
        LET self == merge_args[1].docs
            other == merge_args[3]
            combined == group.docs
        IN /\ Overlapping(DocBytes(self), DocBytes(other)) =>
                /\ DocsLen(self) >= DocsLen(other) => combined = self
                /\ DocsLen(self) < DocsLen(other) => combined = other
           /\ ~Overlapping(DocBytes(self), DocBytes(other)) => combined = self \o other
           /\ other = self => combined = self
           /\ other = <<>> => combined = self

(* A shorter list that only ends the group's docs was merged, and the      *)
(* group's docs were kept                                                  *)
C11_Witness ==
    /\ merge_args # <<>>
    /\ DocsLen(merge_args[3]) > 0
    /\ DocsLen(merge_args[3]) < DocsLen(merge_args[1].docs)
    /\ IsSuffixOf(DocBytes(merge_args[3]), DocBytes(merge_args[1].docs))
    /\ ~IsPrefixOf(DocBytes(merge_args[3]), DocBytes(merge_args[1].docs))
    /\ group.docs = merge_args[1].docs

-----------------------------------------------------------------------------
(* flattened.rs: subsumption of one flattened import by another *)

LeafIsSubsumedByAnyRename(self, possible_parent) ==
    IF possible_parent.kind = "Wildcard" /\ self.kind = "Plain" THEN TRUE
    ELSE IF possible_parent.kind = "Plain" /\ self.kind = "Plain"
            /\ possible_parent.usage.kind = "Used" /\ self.usage.kind = "Renamed"
         THEN possible_parent.name = self.name
         ELSE FALSE

(* UsedItemLeaf::is_subsumed_by *)
LeafIsSubsumedBy(self, possible_parent) ==
    IF possible_parent.kind = "Wildcard" /\ self.kind = "Plain"
    THEN IF self.usage.kind = "Used" THEN TRUE ELSE self.usage.alias = "_"
    ELSE IF possible_parent.kind = "Plain" /\ self.kind = "Plain"
            /\ possible_parent.usage.kind = "Used" /\ self.usage.kind = "Renamed"
         THEN possible_parent.name = self.name /\ self.usage.alias = "_"
         ELSE FALSE

(* SingleUsedItem::is_subsumed_by *)
IsSubsumedBy(self, possible_parent) ==
    /\ self.rooted = possible_parent.rooted
    /\ self.path = possible_parent.path
    /\ LeafIsSubsumedBy(self.leaf, possible_parent.leaf)

Leaves ==
    {Wildcard}
        \cup {Plain(name, usage) : name \in {"b", "c"},
                                   usage \in {Used, Renamed("_"), Renamed("z")}}

SingleUsedItems ==
    {SingleUsedItem(rooted, path, leaf) :
        rooted \in {Rooted, Unrooted}, path \in {<<>>, <<"a">>, <<"a", "b">>}, leaf \in Leaves}

InitSubsume ==
    /\ pc = "subsume"
    /\ subsume_args \in SingleUsedItems \X SingleUsedItems
    /\ subsumed = FALSE
    /\ items = EmptyMap /\ added = <<>>
    /\ group = DefaultGroup /\ merge_args = <<>>
    /\ WriterIdle /\ PrintIdle /\ ParseIdle /\ OrderIdle /\ BuildIdle /\ IdentIdle /\ PipeIdle

(* subsume_args[1].is_subsumed_by(&subsume_args[2]) *)
IsSubsumedByStep ==
    /\ pc = "subsume"
    /\ subsumed' = IsSubsumedBy(subsume_args[1], subsume_args[2])
    /\ pc' = "subsumed"
    /\ UNCHANGED <<subsume_args, writerVars, flattenVars, mergeVars, printVars, parseVars, orderVars, buildVars, identVars, pipeVars>>

NextSubsume == IsSubsumedByStep

SpecSubsume == InitSubsume /\ [][NextSubsume]_vars

-----------------------------------------------------------------------------
(* Properties of subsumption *)

IsPlainUsed(leaf) == leaf.kind = "Plain" /\ leaf.usage.kind = "Used"

IsRenamedTo(leaf, alias) ==
    leaf.kind = "Plain" /\ leaf.usage.kind = "Renamed" /\ leaf.usage.alias = alias

(* C12: B.is_subsumed_by(A) is true exactly when A and B have the same     *)
(* rootedness and the same path and A is a wildcard and B a plain          *)
(* non-renamed name, or A is a wildcard and B a name renamed to `_`, or A  *)
(* is a plain non-renamed name and B the same name renamed to `_`; it is   *)
(* false in every other case.                                              *)
C12_Subsumption ==
    pc = "subsumed" =>
        LET B == subsume_args[1]
            A == subsume_args[2]
        IN subsumed <=>
             /\ A.rooted = B.rooted
             /\ A.path = B.path
             /\ \/ A.leaf = Wildcard /\ IsPlainUsed(B.leaf)
                \/ A.leaf = Wildcard /\ IsRenamedTo(B.leaf, "_")
                \/ /\ IsPlainUsed(A.leaf) /\ IsRenamedTo(B.leaf, "_")
                   /\ A.leaf.name = B.leaf.name

(* A name was found subsumed by the same name under the same path, and a   *)
(* rename to another alias would not have been                             *)
C12_Witness ==
    /\ pc = "subsumed"
    /\ subsumed
    /\ IsPlainUsed(subsume_args[2].leaf)
    /\ IsRenamedTo(subsume_args[1].leaf, "_")
    /\ subsume_args[1].path = <<"a", "b">>

-----------------------------------------------------------------------------
(* printable.rs: the printable tree of one use declaration *)

(* Ord of syn::Ident (the order of the names): the identifiers of the      *)
(* model in ascending order                                                *)
IdentOrder ==
    <<"_", "a", "alloc", "b", "c", "core", "crate", "self", "std", "super", "x", "y", "z">>

IdentRank(ident) == CHOOSE i \in DOMAIN IdentOrder : IdentOrder[i] = ident

(* Ord of NameUse: Used, then Renamed by alias *)
UsageRank(usage) == IF usage.kind = "Used" THEN 0 ELSE IdentRank(usage.alias)

(* The elements of a BTreeSet<NameUse> in iteration order *)
RECURSIVE UsagesInOrder(_)
UsagesInOrder(usages) ==
    IF usages = {} THEN <<>>
    ELSE LET least == CHOOSE u \in usages : \A v \in usages : UsageRank(u) <= UsageRank(v)
         IN <<least>> \o UsagesInOrder(usages \ {least})

(* The keys of a BTreeMap<&Ident, _> in iteration order *)
RECURSIVE IdentsInOrder(_)
IdentsInOrder(idents) ==
    IF idents = {} THEN <<>>
    ELSE LET least == CHOOSE i \in idents : \A j \in idents : IdentRank(i) <= IdentRank(j)
         IN <<least>> \o IdentsInOrder(idents \ {least})

(* PrintableChild *)
PlainChild(usage) == [kind |-> "Plain", usage |-> usage]
Subtree(tree) == [kind |-> "Subtree", tree |-> tree]

(* PrintableTree::new *)
NewPrintableTree == [this_usage |-> {}, wildcard |-> FALSE, children |-> EmptyMap]

(* become_subtree without the move of the plain usage into this_usage *)
BecomeSubtreeDropsUsage(child) ==
    IF child.kind = "Subtree" THEN child
    ELSE Subtree(NewPrintableTree)

(* PrintableChild::become_subtree: the child after the call *)
BecomeSubtree(child) ==
    IF child.kind = "Subtree" THEN child
    ELSE Subtree([this_usage |-> {child.usage}, wildcard |-> FALSE, children |-> EmptyMap])

(* PrintableChild::add_usage: the child after the call *)
AddUsage(child, usage) ==
    IF child.kind = "Plain" /\ child.usage = usage THEN child
    ELSE LET tree == BecomeSubtree(child).tree
         IN Subtree([tree EXCEPT !.this_usage = @ \cup {usage}])

(* PrintableTree::add_path: the tree after the call *)
RECURSIVE AddPath(_, _, _)
AddPath(tree, path, leaf) ==
    IF path # <<>>
    THEN LET head == Head(path)
             child == GetOr(tree.children, head, Subtree(NewPrintableTree))
             sub == BecomeSubtree(child).tree
         IN [tree EXCEPT !.children = Put(@, head, Subtree(AddPath(sub, Tail(path), leaf)))]
    ELSE IF leaf.kind = "Wildcard" THEN [tree EXCEPT !.wildcard = TRUE]
    ELSE IF leaf.name \notin DOMAIN tree.children
         THEN [tree EXCEPT !.children = Put(@, leaf.name, PlainChild(leaf.usage))]
         ELSE [tree EXCEPT !.children =
                    Put(@, leaf.name, AddUsage(tree.children[leaf.name], leaf.usage))]

(* PrintableTree::new_from_path *)
NewFromPath(path, leaf) == AddPath(NewPrintableTree, path, leaf)

(* PrintableItem; BasicName::This is the name `self` *)
WildcardItem == [kind |-> "Wildcard"]
PlainItem(name, usage) == [kind |-> "Plain", name |-> name, usage |-> usage]
TreeItem(root, tree) == [kind |-> "Tree", root |-> root, tree |-> tree]

(* PrintableTree::items *)
TreeItems(tree) ==
    LET usages == UsagesInOrder(tree.this_usage)
        names == IdentsInOrder(DOMAIN tree.children)
    IN [i \in DOMAIN usages |-> PlainItem("self", usages[i])]
         \o (IF tree.wildcard THEN <<WildcardItem>> ELSE <<>>)
         \o [i \in DOMAIN names |->
                IF tree.children[names[i]].kind = "Plain"
                THEN PlainItem(names[i], tree.children[names[i]].usage)
                ELSE TreeItem(names[i], tree.children[names[i]].tree)]

(* Display for PrintableItem and for PrintableTree: the text, as tokens *)
RECURSIVE FmtItem(_)
RECURSIVE FmtTree(_)
RECURSIVE FmtItemsFrom(_, _)
FmtItem(item) ==
    IF item.kind = "Wildcard" THEN <<"*">>
    ELSE IF item.kind = "Plain"
         THEN IF item.usage.kind = "Used" THEN <<item.name>>
              ELSE <<item.name, " as ", item.usage.alias>>
    ELSE <<item.root, "::">> \o FmtTree(item.tree)

FmtItemsFrom(tree_items, i) ==
    IF i > Len(tree_items) THEN <<>>
    ELSE FmtItem(tree_items[i]) \o <<", ">> \o FmtItemsFrom(tree_items, i + 1)

FmtTree(tree) ==
    LET tree_items == TreeItems(tree)
    IN IF Len(tree_items) = 1 THEN FmtItem(tree_items[1])
       ELSE <<"{">> \o FmtItemsFrom(tree_items, 1) \o <<"}">>

-----------------------------------------------------------------------------
(* printable.rs: the declarations of a PrintableUseItems *)

(* PrintableKey *)
PrintableKey(configs, docs, visibility, rooted, root_ident) ==
    [configs |-> configs, docs |-> docs, visibility |-> visibility,
     rooted |-> rooted, root_ident |-> root_ident]

(* CrateLocalityKey, by its derived Ord *)
StandardLib == 0
Dependency == 1
CrateLocal == 2
SuperLocal == 3
ThisLocal == 4

LocalityThisFirst(root_ident) ==
    IF root_ident \in {"std", "alloc", "core"} THEN StandardLib
    ELSE IF root_ident = "self" THEN 0 - 1
    ELSE IF root_ident = "super" THEN SuperLocal
    ELSE IF root_ident = "crate" THEN CrateLocal
    ELSE Dependency

(* PrintableKey::sort_key: the locality *)
Locality(root_ident) ==
    IF root_ident \in {"std", "alloc", "core"} THEN StandardLib
    ELSE IF root_ident = "self" THEN ThisLocal
    ELSE IF root_ident = "super" THEN SuperLocal
    ELSE IF root_ident = "crate" THEN CrateLocal
    ELSE Dependency

(* PrintableKey::sort_key *)
SortKey(key) ==
    [locality |-> Locality(key.root_ident), configs |-> key.configs,
     rooted |-> key.rooted, ident |-> key.root_ident]

(* Ord of Rooted *)
RootedRank(rooted) == IF rooted = Rooted THEN 0 ELSE 1

(* Ord of UseItemSortKey (derived: field by field) *)
SortKeyLess(k1, k2) ==
    IF k1.locality # k2.locality THEN k1.locality < k2.locality
    ELSE IF k1.configs # k2.configs THEN ConfigsLess(k1.configs, k2.configs)
    ELSE IF k1.rooted # k2.rooted THEN RootedRank(k1.rooted) < RootedRank(k2.rooted)
    ELSE IdentRank(k1.ident) < IdentRank(k2.ident)

(* Ord for PrintableKey: cmp of the sort keys *)
KeyLess(key1, key2) == SortKeyLess(SortKey(key1), SortKey(key2))

KeyOrdEqual(key1, key2) == ~KeyLess(key1, key2) /\ ~KeyLess(key2, key1)

IsSpacedFromLocalityOnly(self, other) == self.locality # other.locality

(* UseItemSortKey::is_spaced_from *)
IsSpacedFrom(self, other) ==
    IF self.locality # other.locality THEN TRUE
    ELSE IF (self.configs = {}) # (other.configs = {}) THEN TRUE
    ELSE FALSE

(* fmt_path: the segments joined with `::` *)
RECURSIVE JoinWith(_, _)
JoinWith(segments, separator) ==
    IF Len(segments) <= 1 THEN segments
    ELSE <<Head(segments), separator>> \o JoinWith(Tail(segments), separator)

(* Display for Visibility *)
FmtVisibility(visibility) ==
    CASE visibility.kind = "Public" -> <<"pub">>
      [] visibility.kind = "Crate" -> <<"pub(crate)">>
      [] visibility.kind = "This" -> <<"pub(self)">>
      [] visibility.kind = "Super" -> <<"pub(super)">>
      [] visibility.kind = "In" ->
            <<"pub(in ">> \o JoinWith(visibility.segments, "::") \o <<")">>

(* A line written by Display; `entry` is the index of the map entry it is  *)
(* written for (0 for a blank line)                                        *)
OutputLine(bytes, entry) == [bytes |-> bytes, entry |-> entry]

(* format_use_item: the lines written for the entry at index i *)
FormatUseItem(key, child, i) ==
    LET configs == ConfigsInOrder(key.configs)
        item == IF child.kind = "Plain" THEN PlainItem(key.root_ident, child.usage)
                ELSE TreeItem(key.root_ident, child.tree)
    IN [c \in DOMAIN configs |-> OutputLine(<<"#[cfg(", configs[c], ")]", "\n">>, i)]
         \o <<OutputLine((IF key.visibility # NoVis
                          THEN FmtVisibility(key.visibility) \o <<" ">> ELSE <<>>)
                         \o <<"use ">>
                         \o (IF key.rooted = Rooted THEN <<"::">> ELSE <<>>)
                         \o FmtItem(item) \o <<";", "\n">>, i)>>

(* An entry of PrintableUseItems::items; `sources` are the calls of        *)
(* add_single_used_item that went into it                                  *)
PrintableEntry(key, child, sources) == [key |-> key, child |-> child, sources |-> sources]

(* BTreeMap::entry: the index of the entry whose key compares equal, or 0 *)
FindEntry(entries, key) ==
    IF \E i \in DOMAIN entries : KeyOrdEqual(entries[i].key, key)
    THEN CHOOSE i \in DOMAIN entries : KeyOrdEqual(entries[i].key, key)
    ELSE 0

(* VacantEntry::insert: the new entry goes after the entries with a lesser key *)
InsertEntry(entries, entry) ==
    LET before == Cardinality({i \in DOMAIN entries : KeyLess(entries[i].key, entry.key)})
    IN SubSeq(entries, 1, before) \o <<entry>> \o SubSeq(entries, before + 1, Len(entries))

(* PrintableUseItems::add_single_used_item, as call number `call` *)
AddSingleUsedItem(entries, docs, configs, visibility, item, call) ==
    IF item.path # <<>>
    THEN LET ident == Head(item.path)
             path == Tail(item.path)
             key == PrintableKey(configs, docs, visibility, item.rooted, ident)
             found == FindEntry(entries, key)
         IN IF found = 0
            THEN [panic |-> FALSE,
                  entries |-> InsertEntry(entries,
                      PrintableEntry(key, Subtree(NewFromPath(path, item.leaf)), {call}))]
            ELSE [panic |-> FALSE,
                  entries |-> [entries EXCEPT ![found] =
                      PrintableEntry(@.key,
                          Subtree(AddPath(BecomeSubtree(@.child).tree, path, item.leaf)),
                          @.sources \cup {call})]]
    ELSE IF item.leaf.kind = "Wildcard" THEN [panic |-> TRUE, entries |-> entries]
    ELSE LET key == PrintableKey(configs, docs, visibility, item.rooted, item.leaf.name)
             found == FindEntry(entries, key)
         IN IF found = 0
            THEN [panic |-> FALSE,
                  entries |-> InsertEntry(entries,
                      PrintableEntry(key, PlainChild(item.leaf.usage), {call}))]
            ELSE [panic |-> FALSE,
                  entries |-> [entries EXCEPT ![found] =
                      PrintableEntry(@.key, AddUsage(@.child, item.leaf.usage),
                                     @.sources \cup {call})]]

(* Display for PrintableUseItems: the loop over the entries after the first *)
RECURSIVE FmtRest(_, _)
FmtRest(entries, i) ==
    IF i > Len(entries) THEN <<>>
    ELSE (IF IsSpacedFrom(SortKey(entries[i].key), SortKey(entries[i - 1].key))
          THEN <<OutputLine(<<"\n">>, 0)>> ELSE <<>>)
         \o FormatUseItem(entries[i].key, entries[i].child, i)
         \o FmtRest(entries, i + 1)

(* Display for PrintableUseItems *)
FmtUseItems(entries) ==
    IF entries = <<>> THEN <<>>
    ELSE FormatUseItem(entries[1].key, entries[1].child, 1) \o FmtRest(entries, 2)

-----------------------------------------------------------------------------
(* Building and printing a PrintableUseItems *)

PrintInput(docs, configs, visibility, item) ==
    [docs |-> docs, configs |-> configs, visibility |-> visibility, item |-> item]

(* `use <root>::x;` for every locality *)
RootInputs ==
    {PrintInput(<<>>, {}, NoVis, SingleUsedItem(Unrooted, <<root>>, Plain("x", Used))) :
        root \in {"std", "core", "a", "b", "crate", "super", "self"}}

(* Conditional, rooted, visible and documented variations of `use a::...` *)
VariedInputs ==
    {PrintInput(<<>>, {"unix"}, NoVis, SingleUsedItem(Unrooted, <<"a">>, Plain("x", Used))),
     PrintInput(<<>>, {"windows"}, NoVis, SingleUsedItem(Unrooted, <<"a">>, Plain("x", Used))),
     PrintInput(<<>>, {"unix"}, NoVis, SingleUsedItem(Unrooted, <<"std">>, Plain("x", Used))),
     PrintInput(<<>>, {}, NoVis, SingleUsedItem(Rooted, <<"a">>, Plain("x", Used))),
     PrintInput(<<>>, {}, Public, SingleUsedItem(Unrooted, <<"a">>, Plain("y", Used))),
     PrintInput(<< <<"d">> >>, {}, NoVis, SingleUsedItem(Unrooted, <<"a">>, Wildcard))}

(* Other shapes of path: `use a;`, `use a::x as _;`, `use a::x::y;`, and   *)
(* the root-level wildcard that add_single_used_item refuses               *)
ShapedInputs ==
    {PrintInput(<<>>, {}, NoVis, SingleUsedItem(Unrooted, <<>>, Plain("a", Used))),
     PrintInput(<<>>, {}, NoVis, SingleUsedItem(Unrooted, <<"a">>, Plain("x", Renamed("_")))),
     PrintInput(<<>>, {}, NoVis, SingleUsedItem(Unrooted, <<"a", "x">>, Plain("y", Used))),
     PrintInput(<<>>, {}, NoVis, SingleUsedItem(Unrooted, <<>>, Wildcard))}

PrintInputs == RootInputs \cup VariedInputs \cup ShapedInputs

InitPrint ==
    /\ pc = "print"
    /\ print_items = <<>> /\ print_added = <<>> /\ output = <<>>
    /\ items = EmptyMap /\ added = <<>>
    /\ group = DefaultGroup /\ merge_args = <<>>
    /\ WriterIdle /\ SubsumeIdle /\ ParseIdle /\ OrderIdle /\ BuildIdle /\ IdentIdle /\ PipeIdle

(* this.add_single_used_item(docs, configs, visibility, item), for the     *)
(* items of a normalized map: one per path and condition-set               *)
AddSingleUsedItemStep ==
    /\ pc = "print"
    /\ Len(print_added) < MaxPrintItems
    /\ \E input \in PrintInputs :
          LET result == AddSingleUsedItem(print_items, input.docs, input.configs,
                                          input.visibility, input.item,
                                          Len(print_added) + 1)
          IN /\ \A i \in DOMAIN print_added :
                    ~(print_added[i].item = input.item
                        /\ print_added[i].configs = input.configs)
             /\ print_items' = result.entries
             /\ print_added' = Append(print_added, input)
             /\ pc' = IF result.panic THEN "panicked" ELSE "print"
    /\ UNCHANGED <<output, writerVars, flattenVars, mergeVars, subsumeVars, parseVars, orderVars, buildVars, identVars, pipeVars>>

(* write!(f, "{}", this) *)
FmtStep ==
    /\ pc = "print"
    /\ output' = FmtUseItems(print_items)
    /\ pc' = "printed"
    /\ UNCHANGED <<print_items, print_added, writerVars, flattenVars, mergeVars,
                   subsumeVars, parseVars, orderVars, buildVars, identVars, pipeVars>>

NextPrint == AddSingleUsedItemStep \/ FmtStep

SpecPrint == InitPrint /\ [][NextPrint]_vars

-----------------------------------------------------------------------------
(* Properties of the printed declarations *)

Printed == pc = "printed"

(* The indices of the output lines that end a use declaration *)
UseLines == {n \in DOMAIN output : output[n].entry # 0 /\ "use " \in Range(output[n].bytes)}

IsBlank(line) == line.bytes = <<"\n">>

(* The key of the i-th call of add_single_used_item *)
KeyOfCall(i) ==
    LET input == print_added[i]
    IN PrintableKey(input.configs, input.docs, input.visibility, input.item.rooted,
                    IF input.item.path # <<>> THEN Head(input.item.path)
                    ELSE input.item.leaf.name)

(* The use line that renders the item of the i-th call *)
LineOfCall(i) == CHOOSE n \in UseLines : i \in print_items[output[n].entry].sources

(* The text that starts a declaration of the given visibility *)
DeclarationStart(visibility) ==
    IF visibility = NoVis THEN <<"use ">> ELSE FmtVisibility(visibility) \o <<" ", "use ">>

(* C13: two flattened items are rendered inside the same use declaration   *)
(* if and only if they agree on all five components of the PrintableKey    *)
(* (docs, condition-set, visibility, rootedness, root identifier), and     *)
(* every declaration is printed with the visibility of its items.          *)
C13_DeclarationGrouping ==
    Printed =>
        /\ \A i, j \in DOMAIN print_added :
              (LineOfCall(i) = LineOfCall(j)) <=> (KeyOfCall(i) = KeyOfCall(j))
        /\ \A i \in DOMAIN print_added :
              LET start == DeclarationStart(print_added[i].visibility)
              IN SubSeq(output[LineOfCall(i)].bytes, 1, Len(start)) = start

(* The key of the declaration that ends at output line n *)
KeyAt(n) == print_items[output[n].entry].key

(* std/alloc/core, then other dependencies, then crate, super, self *)
LocalityClass(root_ident) ==
    CASE root_ident \in {"std", "alloc", "core"} -> 1
      [] root_ident = "crate" -> 3
      [] root_ident = "super" -> 4
      [] root_ident = "self" -> 5
      [] OTHER -> 2

HasConditions(key) == IF key.configs = {} THEN 0 ELSE 1

(* The order of declarations: locality, then the condition-set with the    *)
(* unconditional one first, then rooted before unrooted, then the name     *)
SortsBefore(key1, key2) ==
    IF LocalityClass(key1.root_ident) # LocalityClass(key2.root_ident)
    THEN LocalityClass(key1.root_ident) < LocalityClass(key2.root_ident)
    ELSE IF HasConditions(key1) # HasConditions(key2)
    THEN HasConditions(key1) < HasConditions(key2)
    ELSE IF key1.configs # key2.configs THEN ConfigsLess(key1.configs, key2.configs)
    ELSE IF key1.rooted # key2.rooted THEN key1.rooted = Rooted
    ELSE IdentRank(key1.root_ident) < IdentRank(key2.root_ident)

(* C14: the declarations rendered by PrintableUseItems appear in           *)
(* non-decreasing SortKey order: locality of the root identifier           *)
(* (std/alloc/core, other dependencies, crate, super, self), then the      *)
(* condition-set with unconditional before every conditional one, then     *)
(* rooted before unrooted, then the root identifier name.                  *)
C14_SortDiscipline ==
    Printed =>
        \A m, n \in UseLines : m < n => ~SortsBefore(KeyAt(n), KeyAt(m))

(* Three declarations were printed: one of the standard library, a         *)
(* conditional one, and one of `self`, added in another order              *)
C14_Witness ==
    /\ Printed
    /\ Cardinality(UseLines) = 3
    /\ \E n \in UseLines : KeyAt(n).root_ident = "std"
    /\ \E n \in UseLines : KeyAt(n).configs # {}
    /\ \E n \in UseLines : KeyAt(n).root_ident = "self"
    /\ print_added[1].item.path = <<"self">>

(* The (locality, has-conditions) pair of the declaration ending at line n *)
GroupAt(n) == <<LocalityClass(KeyAt(n).root_ident), HasConditions(KeyAt(n))>>

BlankBetween(m, n) == \E b \in (m + 1)..(n - 1) : IsBlank(output[b])

Successive(m, n) == m < n /\ ~\E k \in UseLines : m < k /\ k < n

(* C15: in the rendered text a blank line appears between two successive   *)
(* declarations exactly when they differ in locality or in having          *)
(* conditions; no blank line appears anywhere else, and no two             *)
(* blank-line-separated groups have the same (locality, has-conditions).   *)
C15_BlankLines ==
    Printed =>
        /\ \A m, n \in UseLines :
              Successive(m, n) => (BlankBetween(m, n) <=> GroupAt(m) # GroupAt(n))
        /\ \A b \in DOMAIN output :
              IsBlank(output[b]) =>
                  /\ b - 1 \in UseLines
                  /\ b < Len(output)
                  /\ ~IsBlank(output[b + 1])
        /\ \A m, n \in UseLines :
              (m < n /\ GroupAt(m) = GroupAt(n)) => ~BlankBetween(m, n)

(* Three declarations were printed, the first two in one group and the     *)
(* third, a conditional one of the same locality, after a blank line       *)
C15_Witness ==
    /\ Printed
    /\ \E l, m, n \in UseLines :
          /\ Successive(l, m) /\ Successive(m, n)
          /\ ~BlankBetween(l, m)
          /\ BlankBetween(m, n)
          /\ LocalityClass(KeyAt(m).root_ident) = LocalityClass(KeyAt(n).root_ident)

-----------------------------------------------------------------------------
(* gitfile.rs: the parser. A text is a sequence of tokens: the newline,    *)
(* the space, a run of seven marker characters, or any other text          *)

Newline == "\n"
Space == " "
HeaderArrows == "<<<<<<<"
FooterArrows == ">>>>>>>"
Equals == "======="

(* str::find("\n"): the index of the first newline at or after i, or 0 *)
RECURSIVE FindNewline(_, _)
FindNewline(input, i) ==
    IF i > Len(input) THEN 0
    ELSE IF input[i] = Newline THEN i
    ELSE FindNewline(input, i + 1)

(* parse_any_line *)
ParseAnyLine(input) ==
    LET found == FindNewline(input, 1)
        idx == IF found # 0 THEN found ELSE Len(input)
    IN [ok |-> TRUE, failure |-> FALSE,
        tail |-> SubSeq(input, idx + 1, Len(input)), line |-> SubSeq(input, 1, idx)]

(* space0: the input after its leading spaces *)
RECURSIVE Space0(_)
Space0(input) ==
    IF input # <<>> /\ Head(input) = Space THEN Space0(Tail(input)) ELSE input

(* str::trim_end *)
RECURSIVE TrimEnd(_)
TrimEnd(line) ==
    IF line # <<>> /\ line[Len(line)] \in {Space, Newline}
    THEN TrimEnd(SubSeq(line, 1, Len(line) - 1))
    ELSE line

(* A recoverable error (nom::Err::Error) or a failure (nom::Err::Failure) *)
ParseError(failure) == [ok |-> FALSE, failure |-> failure]

(* parse_conflict_part *)
ParseConflictPart(arrows, input) ==
    IF input # <<>> /\ Head(input) = arrows
    THEN LET any_line == ParseAnyLine(Space0(Tail(input)))
         IN [ok |-> TRUE, failure |-> FALSE,
             tail |-> any_line.tail, name |-> TrimEnd(any_line.line)]
    ELSE ParseError(FALSE)

(* parse_conflict_header *)
ParseConflictHeader(input) == ParseConflictPart(HeaderArrows, input)

(* parse_conflict_footer *)
ParseConflictFooter(input) == ParseConflictPart(FooterArrows, input)

(* parse_conflict_separator *)
ParseConflictSeparator(input) ==
    IF Len(input) >= 2 /\ input[1] = Equals /\ input[2] = Newline
    THEN [ok |-> TRUE, failure |-> FALSE, tail |-> SubSeq(input, 3, Len(input))]
    ELSE ParseError(FALSE)

(* eof *)
ParseEof(input) ==
    IF input = <<>> THEN [ok |-> TRUE, failure |-> FALSE, tail |-> input]
    ELSE ParseError(FALSE)

ConflictOfSwappedNames(left_name, left_lines, right_lines, right_name) ==
    [type |-> "Conflict",
     left |-> [name |-> right_name, lines |-> left_lines],
     right |-> [name |-> left_name, lines |-> right_lines]]

(* parse_conflict: the Conflict it returns *)
ConflictOf(left_name, left_lines, right_lines, right_name) ==
    [type |-> "Conflict",
     left |-> [name |-> left_name, lines |-> left_lines],
     right |-> [name |-> right_name, lines |-> right_lines]]

(* parse_lines_terminated(line, terminator), for the three pairs of        *)
(* parsers it is called with:                                              *)
(*   "chunks": alt((parse_conflict, parse_any_line)) until eof             *)
(*   "left":   parse_any_line until parse_conflict_separator               *)
(*   "right":  parse_any_line until parse_conflict_footer                  *)
RECURSIVE ParseLinesTerminated(_, _, _)
RECURSIVE ParseConflict(_)

(* The `terminator` parser of the pair *)
Terminator(pair, input) ==
    CASE pair = "chunks" -> ParseEof(input)
      [] pair = "left" -> ParseConflictSeparator(input)
      [] pair = "right" -> ParseConflictFooter(input)

(* The `line` parser of the pair; alt tries parse_any_line after a         *)
(* recoverable error of parse_conflict                                     *)
LineParser(pair, input) ==
    IF pair = "chunks"
    THEN LET conflict == ParseConflict(input)
         IN IF conflict.ok \/ conflict.failure THEN conflict
            ELSE LET any_line == ParseAnyLine(input)
                 IN [any_line EXCEPT !.line = RawLine(any_line.line)]
    ELSE ParseAnyLine(input)

ParseLinesTerminated(pair, input, lines) ==
    LET terminator == Terminator(pair, input)
    IN IF terminator.ok
       THEN [ok |-> TRUE, failure |-> FALSE, tail |-> terminator.tail,
             lines |-> lines, terminator |-> terminator]
       ELSE IF terminator.failure THEN terminator
       ELSE IF input = <<>> THEN ParseError(FALSE)
       ELSE LET line == LineParser(pair, input)
            IN IF ~line.ok THEN line
               ELSE ParseLinesTerminated(pair, line.tail, Append(lines, line.line))

ParseConflictWithoutCut(input) ==
    LET header == ParseConflictHeader(input)
    IN IF ~header.ok THEN header
       ELSE LET left == ParseLinesTerminated("left", header.tail, <<>>)
            IN IF ~left.ok THEN ParseError(FALSE)
               ELSE LET right == ParseLinesTerminated("right", left.tail, <<>>)
                    IN IF ~right.ok THEN ParseError(FALSE)
                       ELSE [ok |-> TRUE, failure |-> FALSE, tail |-> right.tail,
                             line |-> ConflictOf(header.name, left.lines,
                                                 right.lines, right.terminator.name)]

(* parse_conflict; the pair of halves is under cut() *)
ParseConflict(input) ==
    LET header == ParseConflictHeader(input)
    IN IF ~header.ok THEN header
       ELSE LET left == ParseLinesTerminated("left", header.tail, <<>>)
            IN IF ~left.ok THEN ParseError(TRUE)
               ELSE LET right == ParseLinesTerminated("right", left.tail, <<>>)
                    IN IF ~right.ok THEN ParseError(TRUE)
                       ELSE [ok |-> TRUE, failure |-> FALSE, tail |-> right.tail,
                             line |-> ConflictOf(header.name, left.lines,
                                                 right.lines, right.terminator.name)]

(* parse_file *)
ParseFile(input) ==
    LET chunks == ParseLinesTerminated("chunks", input, <<>>)
    IN IF chunks.ok THEN [ok |-> TRUE, chunks |-> FromChunks(chunks.lines)]
       ELSE [ok |-> FALSE, chunks |-> <<>>]

(* GitFile::from_file *)
FromFile(text) == ParseFile(text)

RECURSIVE GetLinesLeftOnly(_, _)
GetLinesLeftOnly(chunks, side) ==
    IF chunks = <<>> THEN <<>>
    ELSE (IF Head(chunks).type = "Line" THEN <<Head(chunks).line>>
          ELSE Head(chunks).left.lines)
         \o GetLinesLeftOnly(Tail(chunks), side)

(* GitFile::get_lines *)
RECURSIVE GetLines(_, _)
GetLines(chunks, side) ==
    IF chunks = <<>> THEN <<>>
    ELSE (IF Head(chunks).type = "Line" THEN <<Head(chunks).line>>
          ELSE IF side = "Left" THEN Head(chunks).left.lines
          ELSE Head(chunks).right.lines)
         \o GetLines(Tail(chunks), side)

(* String::push_str over the lines *)
RECURSIVE PushContents(_)
PushContents(lines) ==
    IF lines = <<>> THEN <<>> ELSE Head(lines).content \o PushContents(Tail(lines))

(* GitFile::build_derived_file *)
BuildDerivedFile(chunks, side) ==
    LET lines == GetLines(chunks, side)
    IN [side |-> side,
        content |-> PushContents(lines),
        line_mappings |-> [line_number \in 1..Len(lines) |-> lines[line_number].line_number]]

-----------------------------------------------------------------------------
(* Parsing a text and deriving the file of one side *)

(* The lines a text is made of, without their newline *)
TextLines ==
    {<<"x">>, <<"y">>,
     <<HeaderArrows, Space, "HEAD">>, <<HeaderArrows, "HEAD">>,
     <<Equals>>,
     <<FooterArrows, Space, "feat">>, <<FooterArrows, Space, "feat", Space>>}

(* The text of the given lines; the last has a newline if `terminated` *)
RECURSIVE TextOf(_, _)
TextOf(lines, terminated) ==
    IF lines = <<>> THEN <<>>
    ELSE IF Len(lines) = 1 THEN Head(lines) \o (IF terminated THEN <<Newline>> ELSE <<>>)
    ELSE Head(lines) \o <<Newline>> \o TextOf(Tail(lines), terminated)

InitParse ==
    /\ pc = "parse"
    /\ \E n \in 0..MaxFileLines :
          \E lines \in [1..n -> TextLines], terminated \in BOOLEAN :
              file = TextOf(lines, terminated)
    /\ parsed = [ok |-> FALSE, chunks |-> <<>>]
    /\ derived = <<>>
    /\ items = EmptyMap /\ added = <<>>
    /\ group = DefaultGroup /\ merge_args = <<>>
    /\ WriterIdle /\ SubsumeIdle /\ PrintIdle /\ OrderIdle /\ BuildIdle /\ IdentIdle /\ PipeIdle

(* GitFile::from_file(file) *)
FromFileStep ==
    /\ pc = "parse"
    /\ parsed' = FromFile(file)
    /\ pc' = "parsed"
    /\ UNCHANGED <<file, derived, writerVars, flattenVars, mergeVars, subsumeVars, printVars, orderVars, buildVars, identVars, pipeVars>>

(* git_file.build_derived_file(side) *)
BuildDerivedFileStep ==
    /\ pc = "parsed"
    /\ parsed.ok
    /\ \E side \in {"Left", "Right"} :
          derived' = BuildDerivedFile(parsed.chunks, side)
    /\ pc' = "derived"
    /\ UNCHANGED <<file, parsed, writerVars, flattenVars, mergeVars, subsumeVars, printVars, orderVars, buildVars, identVars, pipeVars>>

NextParse == FromFileStep \/ BuildDerivedFileStep

SpecParse == InitParse /\ [][NextParse]_vars

-----------------------------------------------------------------------------
(* Properties of the parsed file *)

ParsedOk == pc \in {"parsed", "derived"} /\ parsed.ok

(* The lines of a text, each with its newline if it has one *)
RECURSIVE SplitLines(_)
SplitLines(text) ==
    IF text = <<>> THEN <<>>
    ELSE LET ends == {i \in DOMAIN text : text[i] = Newline} \cup {Len(text)}
             end == Minimum(ends)
         IN <<SubSeq(text, 1, end)>> \o SplitLines(SubSeq(text, end + 1, Len(text)))

InputLines == SplitLines(file)

ParsedConflicts == {i \in DOMAIN parsed.chunks : parsed.chunks[i].type = "Conflict"}

StartsWithMarker(line) == line # <<>> /\ line[1] \in {HeaderArrows, FooterArrows, Equals}

(* C16: after GitFile::from_file the line number stored on every content   *)
(* line equals the line's 1-indexed position in the input, counting the    *)
(* header, separator and footer lines: stored numbers increase strictly in *)
(* chunk order and, with the three marker lines of each conflict, cover    *)
(* 1..N with no gap and no repeat.                                         *)
C16_LineNumbering ==
    ParsedOk =>
        LET lines == AllLines(parsed.chunks)
            numbers == LineNumbersOf(parsed.chunks)
            N == Len(InputLines)
        IN /\ \A i \in DOMAIN lines :
                 /\ lines[i].line_number \in 1..N
                 /\ InputLines[lines[i].line_number] = lines[i].content
           /\ \A i, j \in DOMAIN lines : i < j => lines[i].line_number < lines[j].line_number
           /\ Cardinality(numbers) + 3 * Cardinality(ParsedConflicts) = N
           /\ \A n \in (1..N) \ numbers : StartsWithMarker(InputLines[n])

(* A conflict with a line in its left half was parsed, and the plain line  *)
(* after its footer is line 5                                              *)
C16_Witness ==
    /\ ParsedOk
    /\ \E i \in ParsedConflicts :
          /\ parsed.chunks[i].left.lines # <<>>
          /\ i + 1 \in DOMAIN parsed.chunks
          /\ parsed.chunks[i + 1].type = "Line"
          /\ parsed.chunks[i + 1].line.line_number = 5

(* The original line numbers of the plain lines and of one side's halves *)
NumbersOfSide(side) ==
    {parsed.chunks[i].line.line_number :
        i \in {j \in DOMAIN parsed.chunks : parsed.chunks[j].type = "Line"}}
    \cup UNION {{l.line_number :
                    l \in Range(IF side = "Left" THEN parsed.chunks[i].left.lines
                                ELSE parsed.chunks[i].right.lines)} :
                i \in ParsedConflicts}

OtherSide(side) == IF side = "Left" THEN "Right" ELSE "Left"

(* C17: for each side, build_derived_file yields a map defined exactly on  *)
(* the derived lines 1..M, strictly increasing and one-to-one onto the     *)
(* original line numbers of the plain lines and of that side's half lines; *)
(* no marker line and no line of the other side's half is in its image,    *)
(* and the derived content is those lines of the input, in order.          *)
C17_DerivedFileMapping ==
    pc = "derived" =>
        LET mapping == derived.line_mappings
            expected == NumbersOfSide(derived.side)
            M == Cardinality(expected)
        IN /\ DOMAIN mapping = 1..M
           /\ \A i, j \in 1..M : i < j => mapping[i] < mapping[j]
           /\ {mapping[i] : i \in 1..M} = expected
           /\ \A i \in 1..M :
                 /\ mapping[i] \notin NumbersOfSide(OtherSide(derived.side)) \ expected
                 /\ mapping[i] \in LineNumbersOf(parsed.chunks)
           /\ derived.content = Concat([i \in 1..M |-> InputLines[mapping[i]]])

(* The right file of a conflict with a line in each half, or in the left   *)
(* half and after the conflict, was derived                                *)
C17_Witness ==
    /\ pc = "derived"
    /\ derived.side = "Right"
    /\ \E i \in ParsedConflicts : parsed.chunks[i].left.lines # <<>>
    /\ derived.line_mappings # <<>>
    /\ derived.line_mappings[1] > 2

(* Writing the chunks back: plain lines verbatim, a conflict as header     *)
(* with the left name, left lines, separator, right lines, footer with the *)
(* right name                                                              *)
RECURSIVE WriteBack(_)
WriteBack(chunks) ==
    IF chunks = <<>> THEN <<>>
    ELSE (IF Head(chunks).type = "Line" THEN Head(chunks).line.content
          ELSE <<HeaderArrows, Space>> \o Head(chunks).left.name \o <<Newline>>
               \o PushContents(Head(chunks).left.lines)
               \o <<Equals, Newline>>
               \o PushContents(Head(chunks).right.lines)
               \o <<FooterArrows, Space>> \o Head(chunks).right.name \o <<Newline>>)
         \o WriteBack(Tail(chunks))

UpToTerminalNewline(text1, text2) ==
    \/ text1 = text2
    \/ text1 = text2 \o <<Newline>>
    \/ text2 = text1 \o <<Newline>>

(* C18 as stated: for every accepted input, writing the chunks back        *)
(* reproduces the input byte for byte, up to a terminal newline.           *)
C18_RoundTripAsStated ==
    ParsedOk => UpToTerminalNewline(WriteBack(parsed.chunks), file)

(* The line is seven chevrons, one space, and a name that neither starts   *)
(* nor ends with a space                                                   *)
CanonicalMarker(line) ==
    LET body == IF line[Len(line)] = Newline THEN SubSeq(line, 1, Len(line) - 1) ELSE line
    IN /\ Len(body) >= 2
       /\ body[2] = Space
       /\ Len(body) >= 3 => (body[3] # Space /\ body[Len(body)] # Space)

(* C18: for every accepted input whose lines that start with seven         *)
(* chevrons continue with exactly one space and a branch name without      *)
(* surrounding spaces, writing the chunks back reproduces the input byte   *)
(* for byte, up to a terminal newline.                                     *)
C18_RoundTrip ==
    (/\ ParsedOk
     /\ \A n \in DOMAIN InputLines :
           InputLines[n][1] \in {HeaderArrows, FooterArrows} => CanonicalMarker(InputLines[n]))
        => UpToTerminalNewline(WriteBack(parsed.chunks), file)

(* A text that ends in a footer without a newline was parsed as a conflict *)
(* with a line in a half                                                   *)
C18_Witness ==
    /\ ParsedOk
    /\ \A n \in DOMAIN InputLines :
          InputLines[n][1] \in {HeaderArrows, FooterArrows} => CanonicalMarker(InputLines[n])
    /\ \E i \in ParsedConflicts :
          parsed.chunks[i].left.lines # <<>> \/ parsed.chunks[i].right.lines # <<>>
    /\ file[Len(file)] # Newline
    /\ WriteBack(parsed.chunks) = file \o <<Newline>>

(* C19: a line that has the seven chevrons of a header or footer followed  *)
(* directly by a character other than a space is an ordinary line: in an   *)
(* accepted input it is a content line of the parsed file.                 *)
C19_MarkerRecognition ==
    ParsedOk =>
        \A n \in DOMAIN InputLines :
            (/\ InputLines[n][1] \in {HeaderArrows, FooterArrows}
             /\ Len(InputLines[n]) >= 2
             /\ InputLines[n][2] \notin {Space, Newline})
                => n \in LineNumbersOf(parsed.chunks)

(* A marker line: a separator, or a header or footer with its space *)
IsMarkerLine(line) ==
    \/ line = <<Equals, Newline>>
    \/ Len(line) >= 2 /\ line[1] \in {HeaderArrows, FooterArrows} /\ line[2] = Space

(* C20: GitFile::from_file fails when a separator or footer occurs while   *)
(* no conflict is open, when a second header occurs before the separator   *)
(* of an open conflict, or when a footer occurs before the separator: a    *)
(* marker line is never accepted as ordinary content.                      *)
C20_MisplacedMarkersRejected ==
    ParsedOk =>
        \A l \in Range(AllLines(parsed.chunks)) : ~IsMarkerLine(l.content)

(* The input lines that begin with the arrows of a conflict header *)
HeaderLines == {n \in DOMAIN InputLines : InputLines[n][1] = HeaderArrows}

(* A separator line after line h, and after it a line with footer arrows *)
IsTerminated(h) ==
    \E s \in DOMAIN InputLines :
        /\ s > h
        /\ InputLines[s] = <<Equals, Newline>>
        /\ \E f \in DOMAIN InputLines : f > s /\ InputLines[f][1] = FooterArrows

(* C21: GitFile::from_file fails when the input ends before the separator  *)
(* or before the footer of a conflict whose header was consumed: it never  *)
(* returns the header as an ordinary line, nor a conflict without both     *)
(* halves.                                                                 *)
C21_UnterminatedRejected ==
    pc \in {"parsed", "derived"} =>
        /\ (HeaderLines # {} /\ ~IsTerminated(Minimum(HeaderLines))) => ~parsed.ok
        /\ parsed.ok =>
              \A i \in DOMAIN parsed.chunks :
                  IF parsed.chunks[i].type = "Line"
                  THEN parsed.chunks[i].line.content[1] # HeaderArrows
                  ELSE DOMAIN parsed.chunks[i] = {"type", "left", "right"}

(* A header and a separator but no footer: the parse failed *)
C21_Witness ==
    /\ pc = "parsed"
    /\ ~parsed.ok
    /\ HeaderLines # {}
    /\ \E s \in DOMAIN InputLines :
          s > Minimum(HeaderLines) /\ InputLines[s] = <<Equals, Newline>>
    /\ \A f \in DOMAIN InputLines : InputLines[f][1] # FooterArrows

-----------------------------------------------------------------------------
(* Properties of the rewriter: how often B is written, and what is dropped *)

SplitChunks == {i \in ConflictChunks : IsSplit(original[i])}

(* An anchor line in the right half of a conflict that is not split and    *)
(* whose halves are byte-identical after filtering and substitution        *)
HiddenAnchor(n) ==
    \E i \in ConflictChunks \ SplitChunks :
        /\ n \in Range(LineNumbers(original[i].right.lines))
        /\ SubstitutedBytes(original[i].left.lines)
             = SubstitutedBytes(original[i].right.lines)

(* The anchor of a plain line: B takes the place of that line in dest *)
InPlaceOfLine ==
    \A i \in DOMAIN original :
        (original[i].type = "Line" /\ original[i].line.line_number \in AnchorLines) =>
            \E k \in DOMAIN dest :
                /\ dest[k] = BufferWrite(formatted_use_items)
                /\ \A j \in DOMAIN dest :
                      dest[j].kind = "line" =>
                          (j < k <=> dest[j].ln < original[i].line.line_number)

C26_NoDiscardedLineWritten ==
    Done =>
        /\ \A k \in DOMAIN dest : dest[k].kind = "line" => dest[k].ln \notin discarded_lines
        /\ \A i \in SplitChunks :
              /\ DiscardedIn(TopLeft(original[i])) = {}
              /\ DiscardedIn(TopRight(original[i])) = {}
        /\ \A j \in DOMAIN parts :
              LET conflict == parts[j].conflict
                  held == Range(conflict.left.lines) \cup Range(conflict.right.lines)
              IN \A w \in held : w.kind = "line" => w.ln \notin discarded_lines
        /\ \A k \in DOMAIN dest : dest[k].ln \notin AnchorLines

(* A split conflict with a kept line above the anchor and a line of D      *)
(* below it                                                                *)
C26_Witness ==
    /\ Done
    /\ \E i \in SplitChunks :
          /\ TopLeft(original[i]) \o TopRight(original[i]) # <<>>
          /\ DiscardedIn(After(original[i].left.lines, insert_point.left)) # {}

-----------------------------------------------------------------------------
(* The derived ordering of the flattened items (flattened.rs) *)

(* Ord::cmp of two ranks *)
CmpRank(x, y) == IF x < y THEN "Less" ELSE IF x > y THEN "Greater" ELSE "Equal"

(* Ordering::then: the derived Ord compares field by field *)
ThenCmp(first, second) == IF first # "Equal" THEN first ELSE second

(* The derived Ord with the usage compared before the name *)
LeafCmpUsageFirst(self, other) ==
    IF self.kind = "Wildcard"
    THEN (IF other.kind = "Wildcard" THEN "Equal" ELSE "Less")
    ELSE IF other.kind = "Wildcard" THEN "Greater"
    ELSE ThenCmp(CmpRank(UsageRank(self.usage), UsageRank(other.usage)),
                 CmpRank(IdentRank(self.name), IdentRank(other.name)))

(* The derived Ord with the variants declared in the opposite order *)
LeafCmpPlainFirst(self, other) ==
    IF self.kind = "Wildcard"
    THEN (IF other.kind = "Wildcard" THEN "Equal" ELSE "Greater")
    ELSE IF other.kind = "Wildcard" THEN "Less"
    ELSE ThenCmp(CmpRank(IdentRank(self.name), IdentRank(other.name)),
                 CmpRank(UsageRank(self.usage), UsageRank(other.usage)))

(* #[derive(Ord)] of UsedItemLeaf: the variants in declaration order, then *)
(* the fields of Plain in order                                            *)
LeafCmp(self, other) ==
    IF self.kind = "Wildcard"
    THEN (IF other.kind = "Wildcard" THEN "Equal" ELSE "Less")
    ELSE IF other.kind = "Wildcard" THEN "Greater"
    ELSE ThenCmp(CmpRank(IdentRank(self.name), IdentRank(other.name)),
                 CmpRank(UsageRank(self.usage), UsageRank(other.usage)))

(* Ord of Vec<&Ident>: lexicographic *)
RECURSIVE PathCmp(_, _)
PathCmp(self, other) ==
    IF self = <<>> THEN (IF other = <<>> THEN "Equal" ELSE "Less")
    ELSE IF other = <<>> THEN "Greater"
    ELSE ThenCmp(CmpRank(IdentRank(Head(self)), IdentRank(Head(other))),
                 PathCmp(Tail(self), Tail(other)))

(* #[derive(Ord)] of SingleUsedItem: rooted, path, leaf *)
SingleUsedItemCmp(self, other) ==
    ThenCmp(CmpRank(RootedRank(self.rooted), RootedRank(other.rooted)),
            ThenCmp(PathCmp(self.path, other.path), LeafCmp(self.leaf, other.leaf)))

(* subsume_args[1].cmp(&subsume_args[2]) *)
CmpStep ==
    /\ pc = "subsumed"
    /\ ordering' = SingleUsedItemCmp(subsume_args[1], subsume_args[2])
    /\ pc' = "compared"
    /\ UNCHANGED <<subsumeVars, writerVars, flattenVars, mergeVars, printVars, parseVars, buildVars, identVars, pipeVars>>

NextOrder == IsSubsumedByStep \/ CmpStep

SpecOrder == InitSubsume /\ [][NextOrder]_vars

Compared == pc = "compared"

SamePath == /\ subsume_args[1].rooted = subsume_args[2].rooted
            /\ subsume_args[1].path = subsume_args[2].path

IsRenamed(leaf) == leaf.kind = "Plain" /\ leaf.usage.kind = "Renamed"

(* C27 as stated: a wildcard leaf sorts before every plain leaf, and every *)
(* plain leaf that is not renamed sorts before every renamed leaf, for any *)
(* names.                                                                  *)
C27_LeafOrderAsStated ==
    (Compared /\ SamePath) =>
        LET self == subsume_args[1].leaf
            other == subsume_args[2].leaf
        IN /\ (self.kind = "Wildcard" /\ other.kind = "Plain") => ordering = "Less"
           /\ (IsPlainUsed(self) /\ IsRenamed(other)) => ordering = "Less"

(* C27, amended: the items are ordered by rooted, then by path             *)
(* (lexicographically), then by leaf; a wildcard leaf sorts before every   *)
(* plain leaf; two plain leaves are ordered by their names, and two plain  *)
(* leaves of the same name are ordered with the plain use before every     *)
(* rename, renames by their alias.                                         *)
C27_LeafOrder ==
    Compared =>
        LET self == subsume_args[1]
            other == subsume_args[2]
        IN /\ ordering = "Equal" <=> self = other
           /\ self.rooted # other.rooted =>
                 (ordering = "Less" <=> self.rooted = Rooted)
           /\ (self.rooted = other.rooted /\ self.path # other.path) =>
                 (ordering = "Less" <=>
                    \/ IsPrefixOf(self.path, other.path)
                    \/ \E k \in DOMAIN self.path \cap DOMAIN other.path :
                          /\ SubSeq(self.path, 1, k - 1) = SubSeq(other.path, 1, k - 1)
                          /\ IdentRank(self.path[k]) < IdentRank(other.path[k]))
           /\ SamePath =>
                 /\ (self.leaf.kind = "Wildcard" /\ other.leaf.kind = "Plain")
                       => ordering = "Less"
                 /\ (self.leaf.kind = "Plain" /\ other.leaf.kind = "Plain"
                       /\ self.leaf.name # other.leaf.name) =>
                       (ordering = "Less"
                          <=> IdentRank(self.leaf.name) < IdentRank(other.leaf.name))
                 /\ (self.leaf.kind = "Plain" /\ other.leaf.kind = "Plain"
                       /\ self.leaf.name = other.leaf.name) =>
                       /\ (IsPlainUsed(self.leaf) /\ IsRenamed(other.leaf))
                             => ordering = "Less"
                       /\ (IsRenamed(self.leaf) /\ IsRenamed(other.leaf)) =>
                             (ordering = "Less"
                                <=> IdentRank(self.leaf.usage.alias)
                                      < IdentRank(other.leaf.usage.alias))

(* A plain use of `c` compared with a rename of `b` under the same path *)
C27_Witness ==
    /\ Compared
    /\ SamePath
    /\ subsume_args[1].leaf = Plain("c", Used)
    /\ subsume_args[2].leaf = Plain("b", Renamed("_"))
    /\ ordering = "Greater"

(* C28: an item that is subsumed by another is strictly greater than it in *)
(* the derived ordering, so the subsumer is met first when a BTreeMap is   *)
(* walked in ascending key order; no item subsumes itself and no two items *)
(* subsume each other.                                                     *)
C28_SubsumersFirst ==
    Compared =>
        /\ subsumed => ordering = "Greater"
        /\ subsumed => subsume_args[1] # subsume_args[2]
        /\ subsumed => ~IsSubsumedBy(subsume_args[2], subsume_args[1])

(* A rename to `_` was found subsumed by the plain use of the same name *)
C28_Witness ==
    /\ Compared
    /\ subsumed
    /\ IsPlainUsed(subsume_args[2].leaf)
    /\ ordering = "Greater"

-----------------------------------------------------------------------------
(* Properties of the printable tree: a plain use extended into a subtree *)

(* The entries after adding the inputs of a list in order, from call `call` *)
RECURSIVE PrintableFrom(_, _, _)
PrintableFrom(entries, inputs, call) ==
    IF inputs = <<>> THEN entries
    ELSE LET input == Head(inputs)
             result == AddSingleUsedItem(entries, input.docs, input.configs,
                                         input.visibility, input.item, call)
         IN PrintableFrom(result.entries, Tail(inputs), call + 1)

(* The keys and trees of the entries, without the calls they came from *)
TreesOf(entries) ==
    [i \in DOMAIN entries |-> [key |-> entries[i].key, child |-> entries[i].child]]

(* The segments of an item: its path, and the name of a plain leaf *)
SegmentsOf(item) ==
    IF item.leaf.kind = "Wildcard" THEN item.path ELSE Append(item.path, item.leaf.name)

(* The child found by following the segments from a child; a missing child *)
(* is [kind |-> "Missing"]                                                 *)
RECURSIVE ChildAt(_, _)
ChildAt(child, segments) ==
    IF segments = <<>> THEN child
    ELSE IF child.kind # "Subtree" \/ Head(segments) \notin DOMAIN child.tree.children
    THEN [kind |-> "Missing"]
    ELSE ChildAt(child.tree.children[Head(segments)], Tail(segments))

(* The item of the i-th call is in the printable tree *)
HoldsCall(i) ==
    LET item == print_added[i].item
        segments == SegmentsOf(item)
    IN \E e \in DOMAIN print_items :
          /\ i \in print_items[e].sources
          /\ print_items[e].key.root_ident = Head(segments)
          /\ LET node == ChildAt(print_items[e].child, Tail(segments))
             IN IF item.leaf.kind = "Wildcard"
                THEN node.kind = "Subtree" /\ node.tree.wildcard
                ELSE \/ node = PlainChild(item.leaf.usage)
                     \/ node.kind = "Subtree" /\ item.leaf.usage \in node.tree.this_usage

(* The i-th call added a plain use that the j-th call extends *)
ExtendedBy(i, j) ==
    LET plain == print_added[i].item
        longer == print_added[j].item
    IN /\ plain.leaf.kind = "Plain"
       /\ plain.rooted = longer.rooted
       /\ Len(SegmentsOf(plain)) <= Len(longer.path)
       /\ IsPrefixOf(SegmentsOf(plain), longer.path)

SameProperties ==
    \A i, j \in DOMAIN print_added :
        /\ print_added[i].docs = print_added[j].docs
        /\ print_added[i].configs = print_added[j].configs
        /\ print_added[i].visibility = print_added[j].visibility

UseASelfX ==
    <<"use ", "a", "::", "{", "self", ", ", "x", ", ", "}", ";", "\n">>

(* C29: when a path stored as a plain use is extended by a longer path,    *)
(* the plain use is kept as a `self` usage of the subtree and no item that *)
(* was added is lost; with the same docs, condition-set and visibility the *)
(* printable tree does not depend on the order of the calls, and `a` and   *)
(* `a::x` are rendered `use a::{self, x, };` in either order.              *)
C29_SelfLifting ==
    (pc \in {"print", "printed"} /\ SameProperties) =>
        /\ \A i \in DOMAIN print_added : HoldsCall(i)
        /\ \A i, j \in DOMAIN print_added :
              ExtendedBy(i, j) =>
                  \E e \in DOMAIN print_items :
                      LET node == ChildAt(print_items[e].child,
                                          Tail(SegmentsOf(print_added[i].item)))
                      IN /\ {i, j} \subseteq print_items[e].sources
                         /\ node.kind = "Subtree"
                         /\ print_added[i].item.leaf.usage \in node.tree.this_usage
        /\ \A order \in Orders(Len(print_added)) :
              TreesOf(PrintableFrom(<<>>, [i \in DOMAIN print_added |->
                                              print_added[order[i]]], 1))
                = TreesOf(print_items)
        /\ (Printed /\ Len(print_added) = 2
               /\ \E i, j \in DOMAIN print_added :
                     /\ print_added[i].item = SingleUsedItem(Unrooted, <<>>, Plain("a", Used))
                     /\ print_added[j].item
                          = SingleUsedItem(Unrooted, <<"a">>, Plain("x", Used)))
              => \E n \in DOMAIN output : output[n].bytes = UseASelfX

(* `a::x` was added before `a`, and the two were printed *)
C29_Witness ==
    /\ Printed
    /\ SameProperties
    /\ Len(print_added) = 2
    /\ print_added[1].item = SingleUsedItem(Unrooted, <<"a">>, Plain("x", Used))
    /\ print_added[2].item = SingleUsedItem(Unrooted, <<>>, Plain("a", Used))
    /\ ExtendedBy(2, 1)
    /\ \E n \in DOMAIN output : output[n].bytes = UseASelfX

-----------------------------------------------------------------------------
(* Building a UseItem from a use declaration (tree.rs) *)

MaxAttrs == 2         \* attributes on one use declaration

(* Attributes of every shape that from_syn_use_item tells apart:           *)
(* #[cfg(unix)]  #[doc = "x"]  #![cfg(unix)]  #[cfg[unix]]  #[allow(x)]    *)
(* #[path = "x"]  #[inline]  #[doc = 1]  #[doc(hidden)]                    *)
SynAttributes ==
    {CfgAttr("unix"),
     DocAttr(<<"x">>),
     [CfgAttr("unix") EXCEPT !.style = "Inner"],
     [CfgAttr("unix") EXCEPT !.delimiter = "Bracket"],
     [CfgAttr("x") EXCEPT !.path = "allow"],
     [DocAttr(<<"x">>) EXCEPT !.path = "path"],
     [style |-> "Outer", meta |-> "Path", path |-> "inline"],
     [DocAttr(<<"x">>) EXCEPT !.value.lit = "Int"],
     [CfgAttr("hidden") EXCEPT !.path = "doc"]}

SynVisibilities ==
    {SynInherited, SynPublic,
     SynRestricted(FALSE, <<"crate">>), SynRestricted(FALSE, <<"self">>),
     SynRestricted(FALSE, <<"super">>), SynRestricted(TRUE, <<"a", "b">>),
     SynRestricted(FALSE, <<"a">>)}

(* a::b  a::*  a::{b as _, c::d}  a::b::{self, c}  a::{}  {a, *}  *  a     *)
(* a as b  {a, b::*}  {}  {a::{}, {*}}                                     *)
SynTrees ==
    UseTrees \cup
    {UsePath("a", UseGroup(<<>>)),
     UseGroup(<<UseName("a"), UseGlob>>),
     UseGlob,
     UseName("a"),
     UseRename("a", "b"),
     UseGroup(<<UseName("a"), UsePath("b", UseGlob)>>),
     UseGroup(<<>>),
     UseGroup(<<UsePath("a", UseGroup(<<>>)), UseGroup(<<UseGlob>>)>>)}

InitBuild ==
    /\ pc = "build"
    /\ \E n \in 0..MaxAttrs :
          \E attrs \in [1..n -> SynAttributes], vis \in SynVisibilities,
             leading_colon \in BOOLEAN, tree \in SynTrees :
              syn_use = ItemUse(attrs, vis, leading_colon, tree)
    /\ created = [ok |-> FALSE]
    /\ items = EmptyMap /\ added = <<>>
    /\ group = DefaultGroup /\ merge_args = <<>>
    /\ WriterIdle /\ SubsumeIdle /\ PrintIdle /\ ParseIdle /\ OrderIdle /\ IdentIdle /\ PipeIdle

(* UseItem::from_syn_use_item(syn_use) *)
FromSynUseItemStep ==
    /\ pc = "build"
    /\ created' = FromSynUseItem(syn_use)
    /\ pc' = "built"
    /\ UNCHANGED <<syn_use, writerVars, flattenVars, mergeVars, subsumeVars, printVars,
                   parseVars, orderVars, identVars, pipeVars>>

NextBuild == FromSynUseItemStep

SpecBuild == InitBuild /\ [][NextBuild]_vars

Built == pc = "built"

IsCfg(attr) == attr.meta = "List" /\ attr.path = "cfg" /\ attr.delimiter = "Paren"

IsDoc(attr) == attr.meta = "NameValue" /\ attr.path = "doc"

IsStringDoc(attr) == IsDoc(attr) /\ attr.value.lit = "Str" /\ attr.value.attrs = <<>>

(* A `*` at the root level of the tree, also inside root-level groups *)
RECURSIVE HasRootStar(_)
HasRootStar(tree) ==
    CASE tree.t = "Glob" -> TRUE
      [] tree.t = "Group" -> \E i \in DOMAIN tree.items : HasRootStar(tree.items[i])
      [] OTHER -> FALSE

(* The declarations that the claim says are refused *)
Refused(item) ==
    \/ \E i \in DOMAIN item.attrs : item.attrs[i].style = "Inner"
    \/ \E i \in DOMAIN item.attrs : ~IsCfg(item.attrs[i]) /\ ~IsDoc(item.attrs[i])
    \/ \E i \in DOMAIN item.attrs : IsDoc(item.attrs[i]) /\ ~IsStringDoc(item.attrs[i])
    \/ /\ item.vis.t = "Restricted"
       /\ ~item.vis.in_token
       /\ item.vis.path \notin {<<"crate">>, <<"self">>, <<"super">>}
    \/ HasRootStar(item.tree)

(* C22: from_syn_use_item returns an error, and no UseItem, exactly when   *)
(* the declaration has an inner attribute, an attribute other than         *)
(* cfg(...) or doc = "string", a doc attribute whose value is not a single *)
(* string literal, a restricted visibility other than crate, self, super   *)
(* or in(path), or a `*` at the root level of the tree (inside a           *)
(* root-level group included); it succeeds in every other case.            *)
C22_ConstructionFailures ==
    Built =>
        /\ created.ok <=> ~Refused(syn_use)
        /\ ~created.ok =>
              /\ "item" \notin DOMAIN created
              /\ created.error \in {"InnerAttributes", "UnrecognizedAttribute",
                                     "MalformedDocAttribute", "MalformedVisibility",
                                     "UseStar"}
        /\ created.ok =>
              /\ Len(created.item.docs)
                   = Cardinality({i \in DOMAIN syn_use.attrs : IsDoc(syn_use.attrs[i])})
              /\ created.item.configs # {}
                   <=> \E i \in DOMAIN syn_use.attrs : IsCfg(syn_use.attrs[i])

(* pub(a) without `in` on a declaration that is otherwise accepted *)
C22_Witness ==
    /\ Built
    /\ ~created.ok
    /\ created.error = "MalformedVisibility"
    /\ syn_use.vis = SynRestricted(FALSE, <<"a">>)
    /\ Len(syn_use.attrs) = 2
    /\ ~HasRootStar(syn_use.tree)

(* Every Branches node below has a use, the wildcard or a child *)
RECURSIVE NeverEmpty(_)
NeverEmpty(branches) ==
    /\ branches.used # {} \/ branches.wildcard \/ DOMAIN branches.children # {}
    /\ \A child \in DOMAIN branches.children : NeverEmpty(branches.children[child])

(* C30: in every UseItem returned by from_syn_use_item, every Branches     *)
(* node reachable from the roots has a non-empty set of uses, the wildcard *)
(* flag, or a non-empty children map, also for declarations with empty     *)
(* groups such as `use a::{};`.                                            *)
C30_BranchesNeverEmpty ==
    (Built /\ created.ok) =>
        \A root \in DOMAIN created.item.children :
            NeverEmpty(created.item.children[root])

-----------------------------------------------------------------------------
(* Identifiers (parsers.rs). A str is a sequence of characters.            *)

MaxChars == 5         \* characters of the input of parse_identifier

(* The characters of the explored inputs: `r` and `a` are XID_Start, `1`   *)
(* and `_` are XID_Continue only, `#` and `:` are neither                  *)
Chars == {"r", "a", "1", "_", "#", ":"}

(* char::is_xid_start *)
IsXidStart(c) == c \in {"r", "a"}

(* char::is_xid_continue *)
IsXidContinue(c) == c \in {"r", "a", "1", "_"}

(* input.find(|c| !c.is_xid_continue()).unwrap_or(input.len()), as a count *)
SplitPoint(input) ==
    LET stops == {i \in DOMAIN input : ~IsXidContinue(input[i])}
    IN IF stops = {} THEN Len(input) ELSE Minimum(stops) - 1

(* parse_normal_identifier that stops at the first non-XID_Start character *)
ParseNormalIdentifierStartOnly(input) ==
    LET stops == {i \in DOMAIN input : ~IsXidStart(input[i])}
        split_point == IF stops = {} THEN Len(input) ELSE Minimum(stops) - 1
        ident == SubSeq(input, 1, split_point)
        tail == SubSeq(input, split_point + 1, Len(input))
    IN IF ident = <<>> THEN [ok |-> FALSE, kind |-> "Alpha"]
       ELSE [ok |-> TRUE, tail |-> tail, ident |-> ident]

(* parse_normal_identifier *)
ParseNormalIdentifier(input) ==
    LET split_point == SplitPoint(input)
        ident == SubSeq(input, 1, split_point)
        tail == SubSeq(input, split_point + 1, Len(input))
    IN IF ident = <<>> THEN [ok |-> FALSE, kind |-> "Alpha"]
       ELSE IF IsXidStart(ident[1]) THEN [ok |-> TRUE, tail |-> tail, ident |-> ident]
       ELSE IF ident[1] = "_"
       THEN IF Tail(ident) = <<>> THEN [ok |-> FALSE, kind |-> "AlphaNumeric"]
            ELSE [ok |-> TRUE, tail |-> tail, ident |-> ident]
       ELSE [ok |-> FALSE, kind |-> "Alpha"]

(* parse_raw_prefix: tag("r#") *)
ParseRawPrefix(input) ==
    IF Len(input) >= 2 /\ input[1] = "r" /\ input[2] = "#"
    THEN [ok |-> TRUE, tail |-> SubSeq(input, 3, Len(input))]
    ELSE [ok |-> FALSE, kind |-> "Tag"]

(* parse_identifier: the prefix is tried first; the identifier is parsed   *)
(* after the prefix when the prefix matched, and from the start of the     *)
(* input when it did not (opt_preceded_by); recognize() returns the input  *)
(* that the two consumed                                                   *)
ParseIdentifier(input) ==
    LET prefix == ParseRawPrefix(input)
        name == ParseNormalIdentifier(IF prefix.ok THEN prefix.tail ELSE input)
    IN IF ~name.ok THEN name
       ELSE [ok |-> TRUE, tail |-> name.tail,
             identifier |-> SubSeq(input, 1, Len(input) - Len(name.tail))]

(* Identifier::get_raw *)
GetRaw(identifier) == identifier

(* Identifier::get *)
Get(identifier) ==
    IF Len(identifier) >= 2 /\ identifier[1] = "r" /\ identifier[2] = "#"
    THEN SubSeq(identifier, 3, Len(identifier))
    ELSE identifier

InitIdent ==
    /\ pc = "identifier"
    /\ \E n \in 0..MaxChars : input_str \in [1..n -> Chars]
    /\ ident_result = [ok |-> FALSE]
    /\ items = EmptyMap /\ added = <<>>
    /\ group = DefaultGroup /\ merge_args = <<>>
    /\ WriterIdle /\ SubsumeIdle /\ PrintIdle /\ ParseIdle /\ OrderIdle /\ BuildIdle /\ PipeIdle

(* parse_identifier(input_str) *)
ParseIdentifierStep ==
    /\ pc = "identifier"
    /\ ident_result' = ParseIdentifier(input_str)
    /\ pc' = "identified"
    /\ UNCHANGED <<input_str, writerVars, flattenVars, mergeVars, subsumeVars, printVars,
                   parseVars, orderVars, buildVars, pipeVars>>

NextIdent == ParseIdentifierStep

SpecIdent == InitIdent /\ [][NextIdent]_vars

Identified == pc = "identified"

(* The longest leading run of identifier characters *)
NameRun(str) ==
    CHOOSE run \in {SubSeq(str, 1, n) : n \in 0..Len(str)} :
        /\ \A i \in DOMAIN run : IsXidContinue(run[i])
        /\ Len(run) < Len(str) => ~IsXidContinue(str[Len(run) + 1])

(* An identifier: XID_Start then XID_Continue, or `_` and at least one more *)
IsIdentifierText(run) ==
    /\ run # <<>>
    /\ IsXidStart(run[1]) \/ (run[1] = "_" /\ Len(run) >= 2)
    /\ \A i \in DOMAIN run : IsXidContinue(run[i])

HasRawPrefix(str) == Len(str) >= 2 /\ SubSeq(str, 1, 2) = <<"r", "#">>

AfterRawPrefix(str) == SubSeq(str, 3, Len(str))

(* The raw identifier that the input begins with, or <<>> *)
RawIdentifierOf(str) ==
    IF HasRawPrefix(str) /\ IsIdentifierText(NameRun(AfterRawPrefix(str)))
    THEN <<"r", "#">> \o NameRun(AfterRawPrefix(str))
    ELSE <<>>

(* C24 as stated: on an input that begins with an identifier, optionally   *)
(* preceded by `r#`, parse_identifier returns that identifier as the       *)
(* longest leading run of identifier characters, and the rest of the input *)
(* untouched; the raw text keeps `r#` and get() is the name without it.    *)
C24_IdentifierParsingAsStated ==
    (Identified /\ (RawIdentifierOf(input_str) # <<>>
                      \/ IsIdentifierText(NameRun(input_str)))) =>
        /\ ident_result.ok
        /\ ident_result.identifier \o ident_result.tail = input_str
        /\ IF RawIdentifierOf(input_str) # <<>>
           THEN /\ GetRaw(ident_result.identifier) = RawIdentifierOf(input_str)
                /\ Get(ident_result.identifier) = NameRun(AfterRawPrefix(input_str))
           ELSE /\ GetRaw(ident_result.identifier) = NameRun(input_str)
                /\ Get(ident_result.identifier) = NameRun(input_str)

(* The input that the amended claim is about: after `r#`, when the input   *)
(* begins with it, and else from its start, it begins with an identifier   *)
BeginsWithIdentifier(str) ==
    IF HasRawPrefix(str) THEN RawIdentifierOf(str) # <<>>
    ELSE IsIdentifierText(NameRun(str))

(* C24, amended: parse_identifier succeeds exactly on the inputs that      *)
(* begin with an identifier or with `r#` directly followed by an           *)
(* identifier (an input that begins with `r#` and no identifier after it   *)
(* is refused, although it begins with the identifier `r`); it returns the *)
(* longest leading run of identifier characters, with the `r#` in front of *)
(* it when there is one, and the rest of the input untouched; the raw text *)
(* keeps `r#` and get() is the name without it.                            *)
C24_IdentifierParsing ==
    Identified =>
        /\ ident_result.ok <=> BeginsWithIdentifier(input_str)
        /\ ident_result.ok =>
              /\ ident_result.identifier \o ident_result.tail = input_str
              /\ IF HasRawPrefix(input_str)
                 THEN /\ GetRaw(ident_result.identifier) = RawIdentifierOf(input_str)
                      /\ Get(ident_result.identifier) = NameRun(AfterRawPrefix(input_str))
                 ELSE /\ GetRaw(ident_result.identifier) = NameRun(input_str)
                      /\ Get(ident_result.identifier) = NameRun(input_str)

(* A raw identifier of two characters followed by a tail was parsed *)
C24_Witness ==
    /\ Identified
    /\ ident_result.ok
    /\ HasRawPrefix(input_str)
    /\ Len(Get(ident_result.identifier)) = 2
    /\ ident_result.tail # <<>>

-----------------------------------------------------------------------------
(* The formatter subprocess (pretty.rs): prettify_with_subcommand.         *)
(* The subprocess reads its stdin to EOF and writes its stdout; it blocks  *)
(* in a write while the stdout pipe is full, and a write to stdin blocks   *)
(* while the stdin pipe is full. Bytes are counted, not told apart.        *)

MaxCapacity == 2      \* bytes a pipe holds
MaxInput == 3         \* bytes of formatted_use_items
MaxOutput == 3        \* bytes the subprocess writes to its stdout

InitPipe ==
    /\ pc = "spawned"
    /\ capacity \in 1..MaxCapacity
    /\ stdin = [bytes |-> 0, open |-> TRUE]
    /\ stdout = [bytes |-> 0, open |-> TRUE]
    /\ \E output_len \in 0..MaxOutput :
          command = [mode |-> "read", to_emit |-> output_len, emitted |-> 0,
                     seen_eof |-> FALSE, success |-> FALSE]
    /\ \E input_len \in 0..MaxInput :
          stdin_thread = [state |-> "running", remaining |-> input_len, written |-> 0]
    /\ stdout_thread = [state |-> "running", output |-> 0]
    /\ items = EmptyMap /\ added = <<>>
    /\ group = DefaultGroup /\ merge_args = <<>>
    /\ WriterIdle /\ SubsumeIdle /\ PrintIdle /\ ParseIdle /\ OrderIdle /\ BuildIdle
    /\ IdentIdle

otherVars ==
    <<writerVars, flattenVars, mergeVars, subsumeVars, printVars, parseVars, orderVars,
      buildVars, identVars>>

(* stdin.write_all: one more byte goes into the pipe when it has room *)
StdinWrite ==
    /\ stdin_thread.state = "running"
    /\ stdin_thread.remaining > 0
    /\ stdin.bytes < capacity
    /\ stdin' = [stdin EXCEPT !.bytes = @ + 1]
    /\ stdin_thread' = [stdin_thread EXCEPT !.remaining = @ - 1, !.written = @ + 1]
    /\ UNCHANGED <<pc, capacity, stdout, command, stdout_thread, otherVars>>

(* write_all is done and the closure of the stdin thread returns: the      *)
(* ChildStdin it owns is dropped, which closes the pipe                    *)
StdinReturn ==
    /\ stdin_thread.state = "running"
    /\ stdin_thread.remaining = 0
    /\ stdin_thread' = [stdin_thread EXCEPT !.state = "finished"]
    /\ stdin' = [stdin EXCEPT !.open = FALSE]
    /\ UNCHANGED <<pc, capacity, stdout, command, stdout_thread, otherVars>>

StdinThread == StdinWrite \/ StdinReturn

(* read_to_end in a parent that reads only after write_all has returned *)
StdoutReadAfterWrite ==
    /\ stdout_thread.state = "running"
    /\ stdin_thread.state = "finished"
    /\ stdout.bytes > 0
    /\ stdout' = [stdout EXCEPT !.bytes = @ - 1]
    /\ stdout_thread' = [stdout_thread EXCEPT !.output = @ + 1]
    /\ UNCHANGED <<pc, capacity, stdin, command, stdin_thread, otherVars>>

(* stdout.read_to_end: one more byte is taken from the pipe *)
StdoutRead ==
    /\ stdout_thread.state = "running"
    /\ stdout.bytes > 0
    /\ stdout' = [stdout EXCEPT !.bytes = @ - 1]
    /\ stdout_thread' = [stdout_thread EXCEPT !.output = @ + 1]
    /\ UNCHANGED <<pc, capacity, stdin, command, stdin_thread, otherVars>>

(* read_to_end meets the end of the stream; the newline is pushed and the  *)
(* closure of the stdout thread returns                                    *)
StdoutReturn ==
    /\ stdout_thread.state = "running"
    /\ stdout.bytes = 0
    /\ ~stdout.open
    /\ stdout_thread' = [stdout_thread EXCEPT !.state = "finished", !.output = @ + 1]
    /\ UNCHANGED <<pc, capacity, stdin, stdout, command, stdin_thread, otherVars>>

StdoutThread == StdoutRead \/ StdoutReturn

(* The subprocess reads a byte of its stdin *)
SubprocessRead ==
    /\ command.mode = "read"
    /\ stdin.bytes > 0
    /\ stdin' = [stdin EXCEPT !.bytes = @ - 1]
    /\ UNCHANGED <<pc, capacity, stdout, command, stdin_thread, stdout_thread, otherVars>>

(* The subprocess reads the end of its stdin; what it still has to write   *)
(* it writes before it exits                                               *)
SubprocessEof ==
    /\ command.mode = "read"
    /\ stdin.bytes = 0
    /\ ~stdin.open
    /\ command' = [command EXCEPT !.seen_eof = TRUE,
                                   !.mode = IF command.to_emit > 0 THEN "write" ELSE "exit"]
    /\ UNCHANGED <<pc, capacity, stdin, stdout, stdin_thread, stdout_thread, otherVars>>

(* The subprocess starts a write to its stdout before it has read all *)
SubprocessTurnsToWrite ==
    /\ command.mode = "read"
    /\ command.to_emit > 0
    /\ command' = [command EXCEPT !.mode = "write"]
    /\ UNCHANGED <<pc, capacity, stdin, stdout, stdin_thread, stdout_thread, otherVars>>

(* The write of the subprocess puts a byte into the stdout pipe when it    *)
(* has room; then the subprocess writes on or goes back to reading         *)
SubprocessWrite ==
    /\ command.mode = "write"
    /\ stdout.bytes < capacity
    /\ stdout' = [stdout EXCEPT !.bytes = @ + 1]
    /\ \E next \in {"read", "write", "exit"} :
          /\ next = "write" => command.to_emit > 1
          /\ next = "read" => ~command.seen_eof
          /\ next = "exit" => command.seen_eof /\ command.to_emit = 1
          /\ command' = [command EXCEPT !.to_emit = @ - 1, !.emitted = @ + 1,
                                         !.mode = next]
    /\ UNCHANGED <<pc, capacity, stdin, stdin_thread, stdout_thread, otherVars>>

(* The subprocess exits, with success or not; its stdout is closed *)
SubprocessExit ==
    /\ command.mode = "exit"
    /\ \E success \in BOOLEAN :
          command' = [command EXCEPT !.mode = "exited", !.success = success]
    /\ stdout' = [stdout EXCEPT !.open = FALSE]
    /\ UNCHANGED <<pc, capacity, stdin, stdin_thread, stdout_thread, otherVars>>

Subprocess ==
    \/ SubprocessRead
    \/ SubprocessEof
    \/ SubprocessTurnsToWrite
    \/ SubprocessWrite
    \/ SubprocessExit

(* command.wait() returns; bail when the status is not success *)
Wait ==
    /\ pc = "spawned"
    /\ command.mode = "exited"
    /\ pc' = IF command.success THEN "waited" ELSE "bailed"
    /\ UNCHANGED <<pipeVars, otherVars>>

(* stdin_thread.join() *)
JoinStdinThread ==
    /\ pc = "waited"
    /\ stdin_thread.state = "finished"
    /\ pc' = "joined_stdin"
    /\ UNCHANGED <<pipeVars, otherVars>>

(* stdout_thread.join(): the output is returned *)
JoinStdoutThread ==
    /\ pc = "joined_stdin"
    /\ stdout_thread.state = "finished"
    /\ pc' = "returned"
    /\ UNCHANGED <<pipeVars, otherVars>>

(* thread::scope returns the error after all its threads have finished *)
ScopeReturnsError ==
    /\ pc = "bailed"
    /\ stdin_thread.state = "finished"
    /\ stdout_thread.state = "finished"
    /\ pc' = "failed"
    /\ UNCHANGED <<pipeVars, otherVars>>

MainThread == Wait \/ JoinStdinThread \/ JoinStdoutThread \/ ScopeReturnsError

NextPipe == StdinThread \/ StdoutThread \/ Subprocess \/ MainThread

(* Every thread and the subprocess run again and again while they can *)
SpecPipe ==
    /\ InitPipe
    /\ [][NextPipe]_vars
    /\ WF_vars(StdinThread)
    /\ WF_vars(StdoutThread)
    /\ WF_vars(Subprocess)
    /\ WF_vars(MainThread)

(* The writer, the reader and the wait have completed *)
Completed ==
    /\ pc \in {"returned", "failed"}
    /\ stdin_thread.state = "finished"
    /\ stdout_thread.state = "finished"
    /\ command.mode = "exited"

(* C23: prettify_with_subcommand cannot deadlock: whatever the sizes of    *)
(* the input and of the output relative to the capacity of the pipes, the  *)
(* stdin thread, the stdout thread and the wait for the exit of the        *)
(* subprocess all complete under fair scheduling; stdin is closed once the *)
(* write has finished, and the subprocess sees the end of its input.       *)
C23_NoDeadlock ==
    /\ <>Completed
    /\ <>(command.seen_eof)
    /\ [](stdin_thread.state = "finished" => ~stdin.open /\ stdin_thread.remaining = 0)
    /\ [](command.seen_eof => stdin_thread.state = "finished")

(* Input and output were both larger than a pipe, and all was returned *)
C23_Witness ==
    /\ pc = "returned"
    /\ Completed
    /\ stdin_thread.written > capacity
    /\ command.emitted > capacity
    /\ stdout_thread.output = command.emitted + 1

====
